---- MODULE Spec2Model ----
(***************************************************************************)
(* Query builder (QueryBuilderUtil / GroupBuilder), dialect placeholders,  *)
(* transaction helper and repository facade of rust_api_template.          *)
(*                                                                         *)
(* SQL text is modelled as a sequence of tokens (strings); the arguments   *)
(* bound by push_bind are a sequence of values next to it.                 *)
(***************************************************************************)
EXTENDS Integers, Sequences, FiniteSets, TLC

VARIABLES
    qb,     \* the QueryBuilderUtil being chained
    gb,     \* the GroupBuilder inside a where_group_and / where_group_or closure
    qres,   \* the Result of the last builder call
    db,     \* the committed rows of the entity's table
    pc,     \* position of the facade call in flight ("idle": none)
    call,   \* the facade call in flight, or the last one made
    ret,    \* what the last completed facade call returned
    issued, \* the statements the call has executed (pool or transaction)
    events, \* what execute_transaction has done in the call, in order
    tx,     \* the open transaction and the unit of work running in it
    now,    \* the clock read by Utc::now()
    gq,     \* a raw-SQL QueryBuilder and the query prepared from it
    rl      \* the rate limiter: clock, RATE_LIMIT_STORE, requests in flight

bvars == <<qb, gb, qres>>

rvars == <<db, pc, call, ret, issued, events, tx, now>>

qvars == <<gq, rl>>

vars == <<qb, gb, qres, db, pc, call, ret, issued, events, tx, now, gq, rl>>

-----------------------------------------------------------------------------
(* Bounds and input sets                                                   *)

\* Total number of entries (where clauses, nested ones included, order/group
\* columns, a select list, update/insert keys) one builder may hold.
MaxEntries == 3

\* Column names callers pass: a declared column and an undeclared one.
ColumnInputs == {"email", "bogus"}

\* Operators callers use for the single-value where_* methods.
ValueOpInputs == {"Equal"}

\* Lengths of the lists callers pass to where_in / where_not_in.
InLenInputs == {0, 2}

\* Lengths of the lists a group's closure passes to where_in.
GroupInLenInputs == {2}

-----------------------------------------------------------------------------
(* Entity contract: db/models/user.rs                                      *)

columns == <<"id", "username", "email", "password_hash", "created_at", "updated_at">>

Range(s) == {s[i] : i \in 1..Len(s)}

-----------------------------------------------------------------------------
(* query_models.rs                                                         *)

ComparisonOperator_to_sql(op) ==
    CASE op = "Equal" -> "="
      [] op = "NotEqual" -> "!="
      [] op = "GreaterThan" -> ">"
      [] op = "GreaterThanOrEqual" -> ">="
      [] op = "LessThan" -> "<"
      [] op = "LessThanOrEqual" -> "<="
      [] op = "Like" -> "LIKE"
      [] op = "ILike" -> "ILIKE"
      [] op = "In" -> "IN"
      [] op = "NotIn" -> "NOT IN"
      [] op = "IsNull" -> "IS NULL"
      [] op = "IsNotNull" -> "IS NOT NULL"
      [] op = "Between" -> "BETWEEN"

LogicalOperator_to_sql(op) ==
    CASE op = "And" -> "AND"
      [] op = "Or" -> "OR"

\* WhereCondition: Option<Value> and Option<Vec<Value>> are sequences of
\* length 0 (None) or 1 (Some).
WhereCondition(column, operator, value, values) ==
    [kind |-> "Condition", column |-> column, operator |-> operator,
     value |-> value, values |-> values]

WhereGroup(clauses, operator) ==
    [kind |-> "Group", clauses |-> clauses, operator |-> operator]

-----------------------------------------------------------------------------
(* generic_query_builder.rs                                                *)

DbTypes == {"Postgres", "MySQL", "SQLite"}

\* Mutant of DbType_placeholder: every dialect numbers its placeholders.
DbType_placeholder_numbered(db_type, index) == "$" \o ToString(index)

DbType_placeholder(db_type, index) ==
    IF db_type = "Postgres" THEN "$" \o ToString(index) ELSE "?"

\* QueryBuilder::new(pool, db_type).  calls counts the placeholder() calls
\* made on the builder, returned is what the last call on it returned,
\* prepared the query made by prepare() and ran the query last run from the
\* builder's present text.
QueryBuilder_new_raw(db_type) ==
    [db_type |-> db_type, sql |-> <<>>, param_count |-> 0, calls |-> 0,
     returned |-> "", prepared |-> <<>>, ran |-> <<>>]

-----------------------------------------------------------------------------
(* Results                                                                 *)

Ok(v) == [ok |-> TRUE, val |-> v]

Err(kind, msg) == [ok |-> FALSE, kind |-> kind, msg |-> msg]

-----------------------------------------------------------------------------
(* query_builder.rs: QueryBuilderUtil, construction                        *)

\* QueryBuilderUtil::new
QueryBuilderUtil_new ==
    [where_clauses |-> <<>>, order_by |-> <<>>, joins |-> <<>>,
     limit |-> <<>>, offset |-> <<>>, group_by |-> <<>>, having |-> <<>>,
     distinct |-> FALSE, select_columns |-> <<>>,
     update_data |-> <<>>, insert_data |-> <<>>]

\* GroupBuilder::new; active is the position of the caller's closure
\* (TRUE while where_group_and / where_group_or is running builder_fn).
GroupBuilder_new == [active |-> FALSE, clauses |-> <<>>, operator |-> "And"]

\* Mutant of validate_column: the membership test is missing.
validate_column_unchecked(column) == TRUE

validate_column(column) == column \in Range(columns)

GroupBuilder_validate_column(column) == column \in Range(columns)

\* The body shared by where_eq .. where_between: validate, then push
\* (WhereClause::Condition(condition), None).
push_condition(self, condition) ==
    IF ~validate_column(condition.column)
    THEN Err("InvalidColumn", condition.column)
    ELSE Ok([self EXCEPT !.where_clauses =
                Append(@, [clause |-> condition, op |-> "None"])])

\* where_eq, where_ne, where_gt, where_gte, where_lt, where_lte,
\* where_like, where_ilike
where_value(self, column, operator, value) ==
    push_condition(self, WhereCondition(column, operator, <<value>>, <<>>))

\* where_in, where_not_in
where_in(self, column, operator, values) ==
    push_condition(self, WhereCondition(column, operator, <<>>, <<values>>))

\* where_null, where_not_null
where_null(self, column, operator) ==
    push_condition(self, WhereCondition(column, operator, <<>>, <<>>))

where_between(self, column, start, end) ==
    push_condition(self, WhereCondition(column, "Between", <<>>, <<<<start, end>>>>))

\* Mutant of set_last_op: the connective of every clause is set.
set_last_op_every(clauses, op) ==
    [i \in 1..Len(clauses) |-> [clauses[i] EXCEPT !.op = op]]

\* last_mut().1 = Some(op) on a clause list; nothing on an empty list.
set_last_op(clauses, op) ==
    IF clauses = <<>> THEN clauses
    ELSE [clauses EXCEPT ![Len(clauses)].op = op]

and(self) == [self EXCEPT !.where_clauses = set_last_op(@, "And")]

or(self) == [self EXCEPT !.where_clauses = set_last_op(@, "Or")]

\* The tail of where_group_and / where_group_or, after builder_fn returned
\* Ok(group_builder): an empty group is not pushed.
where_group(self, group_clauses, operator) ==
    IF group_clauses # <<>>
    THEN [self EXCEPT !.where_clauses =
            Append(@, [clause |-> WhereGroup(group_clauses, operator), op |-> "None"])]
    ELSE self

order_by(self, column, direction) ==
    IF ~validate_column(column) THEN Err("InvalidColumn", column)
    ELSE Ok([self EXCEPT !.order_by =
                Append(@, [column |-> column, direction |-> direction])])

group_by(self, column) ==
    IF ~validate_column(column) THEN Err("InvalidColumn", column)
    ELSE Ok([self EXCEPT !.group_by = Append(@, column)])

\* The first column of the list that fails validation, or 0.
FirstInvalid(cols) ==
    IF \E i \in 1..Len(cols) : ~validate_column(cols[i])
    THEN CHOOSE i \in 1..Len(cols) :
            /\ ~validate_column(cols[i])
            /\ \A j \in 1..(i - 1) : validate_column(cols[j])
    ELSE 0

\* select: Option<Vec<String>> is <<>> (None) or <<cols>> (Some(cols)).
select(self, cols) ==
    IF FirstInvalid(cols) # 0 THEN Err("InvalidColumn", cols[FirstInvalid(cols)])
    ELSE Ok([self EXCEPT !.select_columns = <<cols>>])

\* HashMap::insert on a map kept as a sequence of [column, value] pairs in
\* the map's iteration order: an existing key keeps its place.
map_insert(m, column, value) ==
    IF \E i \in 1..Len(m) : m[i].column = column
    THEN [i \in 1..Len(m) |->
            IF m[i].column = column THEN [column |-> column, value |-> value] ELSE m[i]]
    ELSE Append(m, [column |-> column, value |-> value])

RECURSIVE map_extend(_, _)
map_extend(m, data) ==
    IF data = <<>> THEN m
    ELSE map_extend(map_insert(m, data[1].column, data[1].value), Tail(data))

set(self, column, value) ==
    IF ~validate_column(column) THEN Err("InvalidColumn", column)
    ELSE Ok([self EXCEPT !.update_data = map_insert(@, column, value)])

set_multiple(self, data) ==
    LET cols == [i \in 1..Len(data) |-> data[i].column] IN
    IF FirstInvalid(cols) # 0 THEN Err("InvalidColumn", cols[FirstInvalid(cols)])
    ELSE Ok([self EXCEPT !.update_data = map_extend(@, data)])

value(self, column, v) ==
    IF ~validate_column(column) THEN Err("InvalidColumn", column)
    ELSE Ok([self EXCEPT !.insert_data = map_insert(@, column, v)])

values(self, data) ==
    LET cols == [i \in 1..Len(data) |-> data[i].column] IN
    IF FirstInvalid(cols) # 0 THEN Err("InvalidColumn", cols[FirstInvalid(cols)])
    ELSE Ok([self EXCEPT !.insert_data = map_extend(@, data)])

limit(self, l) == [self EXCEPT !.limit = <<l>>]

offset(self, o) == [self EXCEPT !.offset = <<o>>]

-----------------------------------------------------------------------------
(* query_builder.rs: GroupBuilder                                          *)

GroupBuilder_push_condition(clauses, condition) ==
    IF ~GroupBuilder_validate_column(condition.column)
    THEN Err("InvalidColumn", condition.column)
    ELSE Ok(Append(clauses, [clause |-> condition, op |-> "None"]))

\* GroupBuilder::where_eq, where_ne, where_gt, where_gte, where_lt, where_like
GroupBuilder_where_value(clauses, column, operator, v) ==
    GroupBuilder_push_condition(clauses, WhereCondition(column, operator, <<v>>, <<>>))

GroupBuilder_where_in(clauses, column, vs) ==
    GroupBuilder_push_condition(clauses, WhereCondition(column, "In", <<>>, <<vs>>))

\* GroupBuilder::where_null, where_not_null
GroupBuilder_where_null(clauses, column, operator) ==
    GroupBuilder_push_condition(clauses, WhereCondition(column, operator, <<>>, <<>>))

GroupBuilder_and(clauses) == set_last_op(clauses, "And")

GroupBuilder_or(clauses) == set_last_op(clauses, "Or")

-----------------------------------------------------------------------------
(* query_builder.rs: rendering.  A sqlx QueryBuilder is the pair           *)
(* [sql, args]: push appends a token, push_bind appends the dialect's next *)
(* placeholder and the argument.                                           *)

QueryBuilder_new(init) == [sql |-> init, args |-> <<>>]

push(st, token) == [st EXCEPT !.sql = Append(@, token)]

\* bind_value: a value that is not a string is bound as it is.
bind_value(db_type, st, v) ==
    [sql |-> Append(st.sql, DbType_placeholder(db_type, Len(st.args) + 1)),
     args |-> Append(st.args, v)]

\* The loop over the elements of an IN / NOT IN list, from element j on.
RECURSIVE bind_in_values(_, _, _, _)
bind_in_values(db_type, st, vs, j) ==
    IF j > Len(vs) THEN st
    ELSE bind_in_values(db_type,
            bind_value(db_type, IF j > 1 THEN push(st, ",") ELSE st, vs[j]),
            vs, j + 1)

\* Mutant of build_single_condition: BETWEEN binds its lower bound only.
build_single_condition_lower_only(db_type, condition, st) ==
    LET st1 == push(push(st, condition.column),
                    ComparisonOperator_to_sql(condition.operator)) IN
    CASE condition.operator \in {"IsNull", "IsNotNull"} -> st1
      [] condition.operator \in {"In", "NotIn"} ->
            IF condition.values # <<>>
            THEN push(bind_in_values(db_type, push(st1, "("), condition.values[1], 1), ")")
            ELSE st1
      [] condition.operator = "Between" ->
            IF condition.values # <<>> /\ Len(condition.values[1]) = 2
            THEN bind_value(db_type, st1, condition.values[1][1])
            ELSE st1
      [] OTHER ->
            IF condition.value # <<>>
            THEN bind_value(db_type, st1, condition.value[1])
            ELSE st1

\* Mutant of build_single_condition: BETWEEN binds its upper bound first.
build_single_condition_swapped(db_type, condition, st) ==
    LET st1 == push(push(st, condition.column),
                    ComparisonOperator_to_sql(condition.operator)) IN
    CASE condition.operator \in {"IsNull", "IsNotNull"} -> st1
      [] condition.operator \in {"In", "NotIn"} ->
            IF condition.values # <<>>
            THEN push(bind_in_values(db_type, push(st1, "("), condition.values[1], 1), ")")
            ELSE st1
      [] condition.operator = "Between" ->
            IF condition.values # <<>> /\ Len(condition.values[1]) = 2
            THEN bind_value(db_type,
                    push(bind_value(db_type, st1, condition.values[1][2]), "AND"),
                    condition.values[1][1])
            ELSE st1
      [] OTHER ->
            IF condition.value # <<>>
            THEN bind_value(db_type, st1, condition.value[1])
            ELSE st1

build_single_condition(db_type, condition, st) ==
    LET st1 == push(push(st, condition.column),
                    ComparisonOperator_to_sql(condition.operator)) IN
    CASE condition.operator \in {"IsNull", "IsNotNull"} -> st1
      [] condition.operator \in {"In", "NotIn"} ->
            IF condition.values # <<>>
            THEN push(bind_in_values(db_type, push(st1, "("), condition.values[1], 1), ")")
            ELSE st1
      [] condition.operator = "Between" ->
            IF condition.values # <<>> /\ Len(condition.values[1]) = 2
            THEN bind_value(db_type,
                    push(bind_value(db_type, st1, condition.values[1][1]), "AND"),
                    condition.values[1][2])
            ELSE st1
      [] OTHER ->
            IF condition.value # <<>>
            THEN bind_value(db_type, st1, condition.value[1])
            ELSE st1

\* The connective pushed in front of clause i (i > 1) of a clause list.
logical_op_before(clauses, i) ==
    IF clauses[i].op # "None" THEN LogicalOperator_to_sql(clauses[i].op) ELSE "AND"

\* The loop of build_where_clauses from clause i on.
RECURSIVE build_where_clauses(_, _, _, _)
build_where_clauses(db_type, clauses, i, st) ==
    IF i > Len(clauses) THEN st
    ELSE
        LET st1 == IF i > 1 THEN push(st, logical_op_before(clauses, i)) ELSE st
            clause == clauses[i].clause
            st2 == IF clause.kind = "Condition"
                   THEN build_single_condition(db_type, clause, st1)
                   ELSE push(build_where_clauses(db_type, clause.clauses, 1,
                                                 push(st1, "(")), ")")
        IN build_where_clauses(db_type, clauses, i + 1, st2)

build_where_conditions(db_type, self, st) ==
    build_where_clauses(db_type, self.where_clauses, 1, st)

-----------------------------------------------------------------------------
(* errors.rs: impl From<sqlx::Error> for ApiError.  A sqlx error is one of *)
(* "RowNotFound", "DatabaseConstraint" (a database error that names a      *)
(* constraint), "Database" (one that names none), "Io" (anything else).    *)

SqlxErrors == {"RowNotFound", "DatabaseConstraint", "Database", "Io"}

\* Mutant of ApiError_from: a missing row is one more database error.
ApiError_from_row_not_found_internal(err) ==
    CASE err = "DatabaseConstraint" -> Err("Conflict", "Already exists")
      [] OTHER -> Err("InternalServer", "Database error")

ApiError_from(err) ==
    CASE err = "RowNotFound" -> Err("NotFound", "Not found")
      [] err = "DatabaseConstraint" -> Err("Conflict", "Already exists")
      [] err = "Database" -> Err("InternalServer", "Database error")
      [] OTHER -> Err("InternalServer", "Database error")

-----------------------------------------------------------------------------
(* u32 arithmetic.  A u32 is kept as two 16-bit halves, so that values up  *)
(* to 2^32 - 1 stay within the integers TLC computes with.                 *)

Half == 65536

U32(n) == [hi |-> n \div Half, lo |-> n % Half]

u32_MAX == [hi |-> Half - 1, lo |-> Half - 1]

\* x - 1: the result, and whether the subtraction overflowed.
u32_sub_one(x) ==
    IF x = U32(0) THEN [overflow |-> TRUE, val |-> u32_MAX]
    ELSE [overflow |-> FALSE,
          val |-> IF x.lo = 0 THEN [hi |-> x.hi - 1, lo |-> Half - 1]
                  ELSE [hi |-> x.hi, lo |-> x.lo - 1]]

u32_saturating_sub_one(x) == IF x = U32(0) THEN U32(0) ELSE u32_sub_one(x).val

\* x * y for y below 2^15: the wrapped result, and whether it overflowed.
u32_mul(x, y) ==
    LET low == x.lo * y.lo
        high == x.hi * y.lo + low \div Half
    IN [overflow |-> high >= Half,
        val |-> [hi |-> high % Half, lo |-> low % Half]]

\* u32::to_string, as a numeral TLC can build: decimal below 2^16,
\* "<hi>*65536+<lo>" above.
u32_to_string(x) ==
    IF x.hi = 0 THEN ToString(x.lo)
    ELSE ToString(x.hi) \o "*65536+" \o ToString(x.lo)

-----------------------------------------------------------------------------
(* The table and the driver                                                *)

MaxBatch == 3

Ids == {1, 2}

\* Emails, in their string order.
EmailOrder == <<"a", "b">>

Emails == Range(EmailOrder)

\* An entity as a caller builds it: primary key id, and one more column.
\* Its timestamps are set by the repository.
Entities == [id : Ids, email : Emails]

\* Entry::set_updated_at: the entity as it is written, a stored row.
set_updated_at(e, t) == [id |-> e.id, email |-> e.email, updated_at |-> t]

EntrySeqs == UNION {[1..n -> Entities] : n \in 0..MaxBatch}

table_name == "users"

\* The repository's dialect (UserRepository holds a Pool<Postgres>).
repo_db_type == "Postgres"

\* T::columns().join(", ")
RECURSIVE JoinTokens(_, _)
JoinTokens(s, sep) ==
    IF Len(s) <= 1 THEN s
    ELSE <<s[1], sep>> \o JoinTokens(Tail(s), sep)

columns_to_string == JoinTokens(columns, ",")

\* The first n placeholders of a fresh builder (QueryBuilder::placeholder).
placeholders(n) == [k \in 1..n |-> DbType_placeholder(repo_db_type, k)]

\* An INSERT of e breaks the primary key's uniqueness.
ViolatesConstraint(rows, e) == \E r \in rows : r.id = e.id

\* Rows in ascending id order.
RECURSIVE SortById(_)
SortById(rows) ==
    IF rows = {} THEN <<>>
    ELSE LET first == CHOOSE r \in rows : \A q \in rows : r.id <= q.id
         IN <<first>> \o SortById(rows \ {first})

\* LIMIT n OFFSET o applied to a row sequence (n, o: u32).
LimitOffset(rows, n, o) ==
    IF o.hi > 0 \/ o.lo >= Len(rows) THEN <<>>
    ELSE LET rest == SubSeq(rows, o.lo + 1, Len(rows))
         IN IF n.hi > 0 \/ n.lo >= Len(rest) THEN rest ELSE SubSeq(rest, 1, n.lo)

Statement(sql, args) == [sql |-> sql, args |-> args]

\* in_flight: the entries whose INSERT is executing on the transaction.
NoTransaction ==
    [staged |-> {}, remaining |-> <<>>, in_flight |-> <<>>, created |-> <<>>,
     result |-> Ok("none"), leased |-> 0]

-----------------------------------------------------------------------------
(* repository_utils.rs: execute_transaction                                *)

\* Mutant of execute_transaction_finish: what was staged outlives a rollback.
execute_transaction_finish_keeps_rows(result, driver_ok) ==
    IF result.ok
    THEN [attempt |-> "commit",
          ret |-> IF driver_ok THEN Ok(result.val) ELSE ApiError_from("Io"),
          persist |-> driver_ok]
    ELSE [attempt |-> "rollback", ret |-> result, persist |-> TRUE]

\* Mutant of execute_transaction_finish: the result of the unit of work is
\* returned whether the commit succeeds or fails.
execute_transaction_finish_ignores_commit(result, driver_ok) ==
    IF result.ok
    THEN [attempt |-> "commit", ret |-> Ok(result.val), persist |-> driver_ok]
    ELSE [attempt |-> "rollback", ret |-> result, persist |-> FALSE]

\* Mutant of execute_transaction_finish: commit is attempted on every result.
execute_transaction_finish_always_commits(result, driver_ok) ==
    [attempt |-> "commit",
     ret |-> IF ~result.ok THEN result
             ELSE IF driver_ok THEN Ok(result.val) ELSE ApiError_from("Io"),
     persist |-> result.ok /\ driver_ok]

\* Mutant of execute_transaction_finish: a failed rollback is the error returned.
execute_transaction_finish_surfaces_rollback(result, driver_ok) ==
    IF result.ok
    THEN [attempt |-> "commit",
          ret |-> IF driver_ok THEN Ok(result.val) ELSE ApiError_from("Io"),
          persist |-> driver_ok]
    ELSE [attempt |-> "rollback",
          ret |-> IF driver_ok THEN result ELSE ApiError_from("Io"),
          persist |-> FALSE]

\* The match on the unit of work's result: which of commit / rollback is
\* attempted, what the call returns and whether the staged rows become
\* durable, given whether the driver carries the attempt out.
execute_transaction_finish(result, driver_ok) ==
    IF result.ok
    THEN [attempt |-> "commit",
          ret |-> IF driver_ok THEN Ok(result.val) ELSE ApiError_from("Io"),
          persist |-> driver_ok]
    ELSE [attempt |-> "rollback", ret |-> result, persist |-> FALSE]

-----------------------------------------------------------------------------
(* repository_trait.rs: the facade.  Each operation is an operator from    *)
(* the table and the call's inputs to [ret, db, issued]: what the call     *)
(* returns, the table afterwards and the statements it executed.  driver   *)
(* is "ok" or the sqlx error the driver raises on the statement.           *)

DriverOutcomes == {"ok", "Io"}

Outcome(r, rows, stmts) == [ret |-> r, db |-> rows, issued |-> stmts]

\* Mutant of to_bind_values: the email is bound before the username.
to_bind_values_email_first(e) ==
    <<e.id, e.email, "username", "password_hash", "created_at", e.updated_at>>

\* User::to_bind_values: one value per column, in the order of columns().
\* The fields a row of this model does not carry are bound as the opaque
\* value named after their column.
to_bind_values(e) ==
    <<e.id, "username", e.email, "password_hash", "created_at", e.updated_at>>

\* Entry::insertable_columns of the modelled entity: aligned one to one with
\* to_bind_values.
insertable_columns == columns

\* "INSERT INTO {} ({}) VALUES ({}) RETURNING {}" of create (listed is
\* columns()) and create_many (listed is insertable_columns()): one
\* placeholder per insertable column, and the entity's values bound by
\* bind_entry_to_query.
insert_statement(listed, e) ==
    Statement(<<"INSERT INTO", table_name, "(">> \o JoinTokens(listed, ",")
                \o <<")", "VALUES", "(">>
                \o JoinTokens(placeholders(Len(insertable_columns)), ",")
                \o <<")", "RETURNING">> \o columns_to_string,
              to_bind_values(e))

\* The sqlx error an INSERT of e raises on the rows it sees, or "ok".
insert_error(rows, e, driver) ==
    IF driver # "ok" THEN driver
    ELSE IF ViolatesConstraint(rows, e) THEN "DatabaseConstraint"
    ELSE "ok"

\* Mutant of Repository_create: the entity returned is the one sent, with
\* no time of writing.
Repository_create_returns_argument(rows, e, t, driver) ==
    LET entry == set_updated_at(e, t)
        err == insert_error(rows, entry, driver) IN
    IF err = "ok"
    THEN Outcome(Ok(set_updated_at(e, 0)), rows \cup {entry}, <<insert_statement(columns, entry)>>)
    ELSE Outcome(ApiError_from(err), rows, <<insert_statement(columns, entry)>>)

Repository_create(rows, e, t, driver) ==
    LET entry == set_updated_at(e, t)
        err == insert_error(rows, entry, driver) IN
    IF err = "ok" THEN Outcome(Ok(entry), rows \cup {entry}, <<insert_statement(columns, entry)>>)
    ELSE Outcome(ApiError_from(err), rows, <<insert_statement(columns, entry)>>)

Repository_delete(rows, id, driver) ==
    LET stmt == Statement(<<"DELETE FROM", table_name, "WHERE", "id", "=">> \o placeholders(1),
                          <<id>>) IN
    IF driver # "ok" THEN Outcome(ApiError_from(driver), rows, <<stmt>>)
    ELSE Outcome(Ok(TRUE), {r \in rows : r.id # id}, <<stmt>>)

\* The statement of delete_many and its execution.
delete_many_execute(rows, ids, driver) ==
    LET stmt == Statement(<<"DELETE FROM", table_name, "WHERE", "id", "IN", "(">>
                            \o JoinTokens(placeholders(Len(ids)), ",") \o <<")">>,
                          ids) IN
    IF driver # "ok" THEN Outcome(ApiError_from(driver), rows, <<stmt>>)
    ELSE IF ids = <<>> THEN Outcome(ApiError_from("Database"), rows, <<stmt>>)
    ELSE Outcome(Ok(Cardinality({r \in rows : r.id \in Range(ids)})),
                 {r \in rows : r.id \notin Range(ids)}, <<stmt>>)

\* Mutant of Repository_delete_many: no test for the empty list.
Repository_delete_many_no_guard(rows, ids, driver) ==
    delete_many_execute(rows, ids, driver)

Repository_delete_many(rows, ids, driver) ==
    IF ids = <<>> THEN Outcome(Ok(0), rows, <<>>)
    ELSE delete_many_execute(rows, ids, driver)

\* OrderDirection::to_sql
OrderDirection_to_sql(direction) == IF direction = "Asc" THEN "ASC" ELSE "DESC"

\* The ORDER BY loop of build_select_query from entry i on.
RECURSIVE order_by_tokens(_, _)
order_by_tokens(order, i) ==
    IF i > Len(order) THEN <<>>
    ELSE (IF i > 1 THEN <<",">> ELSE <<>>)
         \o <<order[i].column, OrderDirection_to_sql(order[i].direction)>>
         \o order_by_tokens(order, i + 1)

\* build_select_query
build_select_query(db_type, self) ==
    LET cols == IF self.select_columns # <<>> THEN self.select_columns[1] ELSE columns
        st0 == QueryBuilder_new(<<"SELECT">> \o (IF self.distinct THEN <<"DISTINCT">> ELSE <<>>)
                                \o JoinTokens(cols, ",") \o <<"FROM", table_name>>)
        st1 == IF self.where_clauses # <<>>
               THEN build_where_conditions(db_type, self, push(st0, "WHERE"))
               ELSE st0
        st2 == IF self.group_by # <<>>
               THEN [st1 EXCEPT !.sql = @ \o <<"GROUP BY">> \o JoinTokens(self.group_by, ",")]
               ELSE st1
        st3 == IF self.order_by # <<>>
               THEN [st2 EXCEPT !.sql = @ \o <<"ORDER BY">> \o order_by_tokens(self.order_by, 1)]
               ELSE st2
        st4 == IF self.limit # <<>>
               THEN [st3 EXCEPT !.sql = @ \o <<"LIMIT", u32_to_string(self.limit[1])>>]
               ELSE st3
    IN IF self.offset # <<>>
       THEN [st4 EXCEPT !.sql = @ \o <<"OFFSET", u32_to_string(self.offset[1])>>]
       ELSE st4

\* The position of a row in ORDER BY column: emails compare as strings.
SortKey(r, column) ==
    IF column = "id" THEN r.id
    ELSE IF column = "email" THEN (CHOOSE k \in 1..Len(EmailOrder) : EmailOrder[k] = r.email)
    ELSE 0

\* Rows ordered by a column, ties by id.
RECURSIVE SortBy(_, _, _)
SortBy(rows, column, direction) ==
    IF rows = {} THEN <<>>
    ELSE LET before(r, q) ==
                \/ (IF direction = "Asc" THEN SortKey(r, column) < SortKey(q, column)
                    ELSE SortKey(r, column) > SortKey(q, column))
                \/ SortKey(r, column) = SortKey(q, column) /\ r.id <= q.id
             first == CHOOSE r \in rows : \A q \in rows : before(r, q)
         IN <<first>> \o SortBy(rows \ {first}, column, direction)

\* QueryBuilderUtil::fetch_all on a builder whose where clauses select the
\* set matching; a driver error is wrapped in ApiError::Database.
fetch_all(self, rows, matching, driver) ==
    LET q == build_select_query(repo_db_type, self)
        ordered == IF self.order_by = <<>> THEN SortById(matching)
                   ELSE SortBy(matching, self.order_by[1].column, self.order_by[1].direction)
        limited == LimitOffset(ordered,
                               IF self.limit = <<>> THEN u32_MAX ELSE self.limit[1],
                               IF self.offset = <<>> THEN U32(0) ELSE self.offset[1])
    IN IF driver # "ok" THEN Outcome(Err("Database", driver), rows, <<Statement(q.sql, q.args)>>)
       ELSE Outcome(Ok(limited), rows, <<Statement(q.sql, q.args)>>)

Repository_find_by_values(rows, column, vs, driver) ==
    IF vs = <<>> THEN Outcome(Ok(<<>>), rows, <<>>)
    ELSE LET built == where_in(QueryBuilderUtil_new, column, "In", vs) IN
         IF ~built.ok THEN Outcome(built, rows, <<>>)
         ELSE fetch_all(built.val, rows,
                        {r \in rows : column = "id" /\ r.id \in Range(vs)}, driver)

\* QueryBuilderUtil::count on a builder whose where clauses select the set
\* matching: SELECT COUNT(*) with the where clauses; the builder's limit,
\* offset and order are not rendered.
count(self, rows, matching, driver) ==
    LET st0 == QueryBuilder_new(<<"SELECT", "COUNT(*)", "FROM", table_name>>)
        q == IF self.where_clauses # <<>>
             THEN build_where_conditions(repo_db_type, self, push(st0, "WHERE"))
             ELSE st0
    IN IF driver # "ok" THEN Outcome(Err("Database", driver), rows, <<Statement(q.sql, q.args)>>)
       ELSE Outcome(Ok(Cardinality(matching)), rows, <<Statement(q.sql, q.args)>>)

Repository_exists(rows, id, driver) ==
    LET built == where_value(QueryBuilderUtil_new, "id", "Equal", id) IN
    IF ~built.ok THEN Outcome(built, rows, <<>>)
    ELSE LET counted == count(limit(built.val, U32(1)), rows, {r \in rows : r.id = id}, driver)
         IN IF ~counted.ret.ok THEN counted
            ELSE Outcome(Ok(counted.ret.val > 0), counted.db, counted.issued)

\* A panic of the calling task.
\* The loop over the assignment map of build_update_query (each entry
\* rendered column = placeholder) and over the value map of
\* build_insert_query (placeholders only), from entry i on.
RECURSIVE bind_map_values(_, _, _, _, _)
bind_map_values(db_type, st, data, i, assigning) ==
    IF i > Len(data) THEN st
    ELSE LET st1 == IF i > 1 THEN push(st, ",") ELSE st
             st2 == IF assigning THEN push(push(st1, data[i].column), "=") ELSE st1
         IN bind_map_values(db_type, bind_value(db_type, st2, data[i].value),
                            data, i + 1, assigning)

\* Mutant of build_update_query: an empty assignment map is rendered too.
build_update_query_no_guard(db_type, self) ==
    LET st1 == bind_map_values(db_type, QueryBuilder_new(<<"UPDATE", table_name, "SET">>),
                               self.update_data, 1, TRUE)
    IN Ok(IF self.where_clauses # <<>>
          THEN build_where_conditions(db_type, self, push(st1, "WHERE"))
          ELSE st1)

build_update_query(db_type, self) ==
    IF self.update_data = <<>> THEN Err("InvalidQuery", "No data provided for update")
    ELSE LET st1 == bind_map_values(db_type,
                                    QueryBuilder_new(<<"UPDATE", table_name, "SET">>),
                                    self.update_data, 1, TRUE)
         IN Ok(IF self.where_clauses # <<>>
               THEN build_where_conditions(db_type, self, push(st1, "WHERE"))
               ELSE st1)

build_insert_query(db_type, self) ==
    IF self.insert_data = <<>> THEN Err("InvalidQuery", "No data provided for insert")
    ELSE LET names == [i \in 1..Len(self.insert_data) |-> self.insert_data[i].column]
             st0 == QueryBuilder_new(<<"INSERT INTO", table_name, "(">>
                                     \o JoinTokens(names, ",") \o <<")", "VALUES", "(">>)
         IN Ok(push(bind_map_values(db_type, st0, self.insert_data, 1, FALSE), ")"))

\* A row with the columns of a map set to the map's values.
assign(row, data) ==
    [f \in DOMAIN row |->
        IF \E i \in 1..Len(data) : data[i].column = f
        THEN data[CHOOSE i \in 1..Len(data) : data[i].column = f].value
        ELSE row[f]]

\* QueryBuilderUtil::update and update_returning.  matching is the rows the
\* database finds to satisfy the WHERE clause.
QueryBuilderUtil_update(self, rows, returning, matching, driver) ==
    LET q == build_update_query(repo_db_type, self) IN
    IF ~q.ok THEN Outcome(q, rows, <<>>)
    ELSE LET st == IF returning THEN push(push(q.val, "RETURNING"), "*") ELSE q.val
             written == {assign(r, self.update_data) : r \in matching}
         IN IF driver # "ok"
            THEN Outcome(Err("Database", driver), rows, <<Statement(st.sql, st.args)>>)
            ELSE Outcome(Ok(IF returning THEN SortById(written) ELSE Cardinality(matching)),
                         (rows \ matching) \cup written,
                         <<Statement(st.sql, st.args)>>)

\* QueryBuilderUtil::insert and insert_returning.  defaults is the row the
\* table's defaults make; the values of the map are written over it.
QueryBuilderUtil_insert(self, rows, returning, defaults, driver) ==
    LET q == build_insert_query(repo_db_type, self) IN
    IF ~q.ok THEN Outcome(q, rows, <<>>)
    ELSE LET st == IF returning THEN push(push(q.val, "RETURNING"), "*") ELSE q.val
             row == assign(defaults, self.insert_data)
             err == insert_error(rows, row, driver)
         IN IF err # "ok"
            THEN Outcome(Err("Database", err), rows, <<Statement(st.sql, st.args)>>)
            ELSE Outcome(Ok(IF returning THEN row ELSE 1), rows \cup {row},
                         <<Statement(st.sql, st.args)>>)

Panic(msg) == [ok |-> FALSE, kind |-> "Panic", msg |-> msg]

\* RepositoryTrait::paginate.  overflow_checks is the build's setting:
\* arithmetic overflow panics with it and wraps without it.
Repository_paginate(rows, page, page_size, overflow_checks, driver) ==
    LET sub == u32_sub_one(page)
        mul == u32_mul(sub.val, page_size)
        stmt == Statement(<<"SELECT">> \o columns_to_string
                            \o <<"FROM", table_name, "ORDER BY", "id", "ASC",
                                 "LIMIT", u32_to_string(page_size),
                                 "OFFSET", u32_to_string(mul.val)>>, <<>>)
    IN IF overflow_checks /\ sub.overflow
       THEN Outcome(Panic("attempt to subtract with overflow"), rows, <<>>)
       ELSE IF overflow_checks /\ mul.overflow
       THEN Outcome(Panic("attempt to multiply with overflow"), rows, <<>>)
       ELSE IF driver # "ok" THEN Outcome(ApiError_from(driver), rows, <<stmt>>)
       ELSE Outcome(Ok(LimitOffset(SortById(rows), page_size, mul.val)), rows, <<stmt>>)

\* QueryBuilderUtil::paginate
QueryBuilderUtil_paginate(self, page, page_size, overflow_checks) ==
    LET mul == u32_mul(u32_saturating_sub_one(page), page_size) IN
    IF overflow_checks /\ mul.overflow THEN Panic("attempt to multiply with overflow")
    ELSE Ok([self EXCEPT !.limit = <<page_size>>, !.offset = <<mul.val>>])

\* RepositoryTrait::paginate_sorted; sort_column and sort_direction are
\* Options (<<>> or <<v>>).
Repository_paginate_sorted(rows, page, page_size, sort_column, sort_direction, overflow_checks, driver) ==
    LET query == QueryBuilderUtil_paginate(QueryBuilderUtil_new, page, page_size,
                                           overflow_checks)
        ordered == IF sort_column # <<>>
                   THEN order_by(query.val, sort_column[1],
                                 IF sort_direction # <<>> THEN sort_direction[1] ELSE "Asc")
                   ELSE order_by(query.val, "id", "Asc")
    IN IF ~query.ok THEN Outcome(query, rows, <<>>)
       ELSE IF ~ordered.ok THEN Outcome(ordered, rows, <<>>)
       ELSE fetch_all(ordered.val, rows, rows, driver)

-----------------------------------------------------------------------------
(* repository_trait.rs: the operations that format their own statement and *)
(* run it on the QueryExecutor, whose errors pass through ApiError::from.  *)

\* "SELECT {} FROM {}" of columns_to_string and table_name.
select_from == <<"SELECT">> \o columns_to_string \o <<"FROM", table_name>>

\* QueryExecutor::fetch_one on the rows a statement matches.
QueryExecutor_fetch_one(matching, driver) ==
    IF driver # "ok" THEN ApiError_from(driver)
    ELSE IF matching = {} THEN ApiError_from("RowNotFound")
    ELSE Ok(SortById(matching)[1])

\* QueryExecutor::fetch_all on the rows a statement matches.
QueryExecutor_fetch_all(matching, driver) ==
    IF driver # "ok" THEN ApiError_from(driver) ELSE Ok(SortById(matching))

Repository_find_by_id(rows, id, driver) ==
    LET stmt == Statement(select_from \o <<"WHERE", "id", "=">> \o placeholders(1), <<id>>)
    IN Outcome(QueryExecutor_fetch_one({r \in rows : r.id = id}, driver), rows, <<stmt>>)

\* "{col} = {placeholder}" for each column, joined by sep: the tokens
\* c1 = $1 sep c2 = $2 ..
column_placeholders(cols, sep) ==
    [p \in 1..(4 * Len(cols) - 1) |->
        CASE p % 4 = 1 -> cols[(p + 3) \div 4]
          [] p % 4 = 2 -> "="
          [] p % 4 = 3 -> DbType_placeholder(repo_db_type, (p + 1) \div 4)
          [] OTHER -> sep]

\* The sqlx error of a statement that names cols, or "ok": the database
\* rejects a column the table does not have.
statement_error(cols, driver) ==
    IF driver # "ok" THEN driver
    ELSE IF \E i \in 1..Len(cols) : cols[i] \notin Range(columns) THEN "Database"
    ELSE "ok"

\* SELECT .. [WHERE c1 = $1 AND ..] run with fetch_all (find_all when cols
\* is empty).
select_where(rows, cols, vals, driver) ==
    LET stmt == Statement(select_from \o (IF cols = <<>> THEN <<>> ELSE <<"WHERE">>)
                            \o column_placeholders(cols, "AND"), vals)
        err == statement_error(cols, driver)
    IN Outcome(QueryExecutor_fetch_all(
                   IF err # "ok" THEN {}
                   ELSE {r \in rows : \A i \in 1..Len(cols) : r[cols[i]] = vals[i]}, err),
               rows, <<stmt>>)

Repository_find_by_column(rows, column, v, driver) ==
    select_where(rows, <<column>>, <<v>>, driver)

Repository_find_by_columns(rows, cols, vals, driver) ==
    IF cols = <<>> \/ vals = <<>> THEN select_where(rows, <<>>, <<>>, driver)
    ELSE IF Len(cols) # Len(vals)
    THEN Outcome(Err("InternalServer", "Columns and values length mismatch"), rows, <<>>)
    ELSE select_where(rows, cols, vals, driver)

\* UPDATE .. SET c1 = $1, .. WHERE id = $n+1 RETURNING .. run with fetch_one.
update_returning(rows, id, cols, vals, driver) ==
    LET n == Len(cols)
        stmt == Statement(<<"UPDATE", table_name, "SET">> \o column_placeholders(cols, ",")
                            \o <<"WHERE", "id", "=", DbType_placeholder(repo_db_type, n + 1),
                                 "RETURNING">> \o columns_to_string,
                          vals \o <<id>>)
        target == {r \in rows : r.id = id}
        written == {[f \in DOMAIN r |->
                        IF \E i \in 1..n : cols[i] = f
                        THEN vals[CHOOSE i \in 1..n : cols[i] = f] ELSE r[f]] : r \in target}
        err == IF statement_error(cols, driver) # "ok" THEN statement_error(cols, driver)
               ELSE IF \E w \in written, r \in rows \ target : w.id = r.id
               THEN "DatabaseConstraint"
               ELSE "ok"
    IN IF err # "ok" THEN Outcome(ApiError_from(err), rows, <<stmt>>)
       ELSE Outcome(QueryExecutor_fetch_one(written, "ok"), (rows \ target) \cup written,
                    <<stmt>>)

\* Mutant of Repository_update: an absent id is inserted.
Repository_update_upserts(rows, id, e, t, driver) ==
    IF \E r \in rows : r.id = id
    THEN update_returning(rows, id, insertable_columns, to_bind_values(set_updated_at(e, t)),
                          driver)
    ELSE Repository_create(rows, e, t, driver)

Repository_update(rows, id, e, t, driver) ==
    update_returning(rows, id, insertable_columns, to_bind_values(set_updated_at(e, t)), driver)

\* Mutant of Repository_update_partial: only a length mismatch is refused.
Repository_update_partial_no_guard(rows, id, cols, vals, driver) ==
    IF Len(cols) # Len(vals)
    THEN Outcome(Err("BadRequest", "Empty columns or values"), rows, <<>>)
    ELSE update_returning(rows, id, cols, vals, driver)

Repository_update_partial(rows, id, cols, vals, driver) ==
    IF cols = <<>> \/ vals = <<>> \/ Len(cols) # Len(vals)
    THEN Outcome(Err("BadRequest", "Empty columns or values"), rows, <<>>)
    ELSE update_returning(rows, id, cols, vals, driver)

-----------------------------------------------------------------------------
(* middlewares/rate_limiter.rs                                             *)

\* Client identifiers, and the requests that can be in flight at a time.
Clients == {"ip:a", "ip:b"}

Requests == {1, 2}

\* RateLimiterConfig of the model.
max_requests == 2

window_duration == 2

\* The store is cleaned when it holds more entries than this (1000 in the
\* source, line 85).
cleanup_threshold == 1

\* The clock stops at MaxClock.
MaxClock == 2

\* Instant::duration_since saturates at zero.
duration_since(later, earlier) == IF later >= earlier THEN later - earlier ELSE 0

\* An empty store, no request in flight.  store[c] is <<>> or <<info>>,
\* reqs[r] is <<>> or the request that read now and waits for the lock;
\* admitted[c][t] counts the requests of c admitted at time t, as far as
\* max_requests + 1, and outcome is the last decision made.
RateLimiter_new ==
    [clock |-> 0,
     store |-> [c \in Clients |-> <<>>],
     reqs |-> [r \in Requests |-> <<>>],
     admitted |-> [c \in Clients |-> [t \in 0..MaxClock |-> 0]],
     outcome |-> <<>>]

store_len(store) == Cardinality({c \in Clients : store[c] # <<>>})

\* store.retain(|_, info| now.duration_since(info.window_start) < window_duration)
retain_unexpired(store, t) ==
    [c \in Clients |->
        IF store[c] # <<>> /\ duration_since(t, store[c][1].window_start) < window_duration
        THEN store[c] ELSE <<>>]

\* The block that holds the lock of RATE_LIMIT_STORE: the decision and the
\* store it leaves.
should_allow(store, client_id, t) ==
    LET kept == IF store_len(store) > cleanup_threshold THEN retain_unexpired(store, t)
                ELSE store
    IN IF kept[client_id] # <<>>
       THEN LET info == kept[client_id][1] IN
            IF duration_since(t, info.window_start) >= window_duration
            THEN [allow |-> TRUE,
                  store |-> [kept EXCEPT ![client_id] = <<[count |-> 1, window_start |-> t]>>]]
            ELSE IF info.count < max_requests
            THEN [allow |-> TRUE,
                  store |-> [kept EXCEPT ![client_id] =
                                <<[count |-> info.count + 1, window_start |-> info.window_start]>>]]
            ELSE [allow |-> FALSE, store |-> kept]
       ELSE [allow |-> TRUE,
             store |-> [kept EXCEPT ![client_id] = <<[count |-> 1, window_start |-> t]>>]]

\* Time passes.
RlTick ==
    /\ rl.clock < MaxClock
    /\ rl' = [rl EXCEPT !.clock = @ + 1]
    /\ UNCHANGED <<bvars, rvars, gq>>

\* A request enters the middleware: client_id is worked out and
\* Instant::now() is read, before the lock is asked for.
Arrive(r, client_id) ==
    /\ rl.reqs[r] = <<>>
    /\ rl' = [rl EXCEPT !.reqs[r] = <<[client_id |-> client_id, now |-> rl.clock]>>]
    /\ UNCHANGED <<bvars, rvars, gq>>

\* The request takes the lock, decides, releases the lock, and is passed on
\* or answered with RateLimitExceeded.
Decide(r) ==
    /\ rl.reqs[r] # <<>>
    /\ LET req == rl.reqs[r][1]
           d == should_allow(rl.store, req.client_id, req.now)
       IN rl' = [rl EXCEPT
                    !.store = d.store,
                    !.reqs[r] = <<>>,
                    !.admitted[req.client_id][rl.clock] =
                        IF d.allow /\ @ <= max_requests THEN @ + 1 ELSE @,
                    !.outcome = <<IF d.allow THEN "next.call" ELSE "RateLimitExceeded">>]
    /\ UNCHANGED <<bvars, rvars, gq>>

NextLimiter ==
    \/ RlTick
    \/ \E r \in Requests, c \in Clients : Arrive(r, c)
    \/ \E r \in Requests : Decide(r)

-----------------------------------------------------------------------------
(* Builder calls as actions                                                *)

\* The number of WhereClause values in a clause list: one per condition,
\* and one per group plus those it holds.
RECURSIVE CountClauses(_)
CountClauses(clauses) ==
    IF clauses = <<>> THEN 0
    ELSE (IF clauses[1].clause.kind = "Group"
          THEN 1 + CountClauses(clauses[1].clause.clauses) ELSE 1)
         + CountClauses(Tail(clauses))

ConditionValues(c) ==
    IF c.value # <<>> THEN c.value
    ELSE IF c.values # <<>> THEN c.values[1] ELSE <<>>

\* The values of a clause list in clause order, groups flattened in place.
RECURSIVE ClauseValues(_)
ClauseValues(clauses) ==
    IF clauses = <<>> THEN <<>>
    ELSE (IF clauses[1].clause.kind = "Group"
          THEN ClauseValues(clauses[1].clause.clauses)
          ELSE ConditionValues(clauses[1].clause))
         \o ClauseValues(Tail(clauses))

Entries ==
    CountClauses(qb.where_clauses)
    + (IF gb.active THEN 1 + CountClauses(gb.clauses) ELSE 0)
    + Len(qb.order_by) + Len(qb.group_by)
    + (IF qb.select_columns = <<>> THEN 0 ELSE 1)
    + Len(qb.update_data) + Len(qb.insert_data)

HasRoom == Entries < MaxEntries

\* Callers number the values they pass in call order, so that a bound value
\* tells which call supplied it.
NextValue == Len(ClauseValues(qb.where_clauses)) + Len(ClauseValues(gb.clauses)) + 1

Chaining == qres.ok /\ ~gb.active

InGroup == qres.ok /\ gb.active

\* A builder method returning Result<Self, ApiError>: it takes self by value,
\* so on Err the builder is dropped and the caller holds the error only.
Returns(r) ==
    /\ qb' = (IF r.ok THEN r.val ELSE QueryBuilderUtil_new)
    /\ qres' = (IF r.ok THEN Ok("Self") ELSE r)
    /\ gb' = gb
    /\ UNCHANGED <<rvars, qvars>>

New ==
    /\ qb' = QueryBuilderUtil_new
    /\ gb' = GroupBuilder_new
    /\ qres' = Ok("Self")
    /\ UNCHANGED <<rvars, qvars>>

WhereValue(column, operator) ==
    /\ Chaining /\ HasRoom
    /\ Returns(where_value(qb, column, operator, NextValue))

WhereIn(column, operator, n) ==
    /\ Chaining /\ HasRoom
    /\ Returns(where_in(qb, column, operator, [k \in 1..n |-> NextValue + k - 1]))

WhereNull(column, operator) ==
    /\ Chaining /\ HasRoom
    /\ Returns(where_null(qb, column, operator))

WhereBetween(column) ==
    /\ Chaining /\ HasRoom
    /\ Returns(where_between(qb, column, NextValue, NextValue + 1))

And ==
    /\ Chaining
    /\ Returns(Ok(and(qb)))

Or ==
    /\ Chaining
    /\ Returns(Ok(or(qb)))

\* where_group_and / where_group_or up to the call of builder_fn.
WhereGroupCall(operator) ==
    /\ Chaining /\ HasRoom
    /\ gb' = [active |-> TRUE, clauses |-> <<>>, operator |-> operator]
    /\ UNCHANGED <<qb, qres>>
    /\ UNCHANGED <<rvars, qvars>>

\* A GroupBuilder method called by builder_fn; its Err is the closure's
\* result (`?`) and so the result of where_group_and / where_group_or.
GroupReturns(r) ==
    /\ gb' = (IF r.ok THEN [gb EXCEPT !.clauses = r.val] ELSE GroupBuilder_new)
    /\ qres' = (IF r.ok THEN qres ELSE r)
    /\ qb' = (IF r.ok THEN qb ELSE QueryBuilderUtil_new)
    /\ UNCHANGED <<rvars, qvars>>

GroupWhereValue(column, operator) ==
    /\ InGroup /\ HasRoom
    /\ GroupReturns(GroupBuilder_where_value(gb.clauses, column, operator, NextValue))

GroupWhereIn(column, n) ==
    /\ InGroup /\ HasRoom
    /\ GroupReturns(GroupBuilder_where_in(gb.clauses, column,
                        [k \in 1..n |-> NextValue + k - 1]))

GroupWhereNull(column, operator) ==
    /\ InGroup /\ HasRoom
    /\ GroupReturns(GroupBuilder_where_null(gb.clauses, column, operator))

GroupAnd ==
    /\ InGroup
    /\ GroupReturns(Ok(GroupBuilder_and(gb.clauses)))

GroupOr ==
    /\ InGroup
    /\ GroupReturns(Ok(GroupBuilder_or(gb.clauses)))

\* builder_fn returned Ok(group_builder): the rest of where_group_*.
WhereGroupReturn ==
    /\ InGroup
    /\ qb' = where_group(qb, gb.clauses, gb.operator)
    /\ gb' = GroupBuilder_new
    /\ qres' = Ok("Self")
    /\ UNCHANGED <<rvars, qvars>>

OrderBy(column, direction) ==
    /\ Chaining /\ HasRoom
    /\ Returns(order_by(qb, column, direction))

GroupBy(column) ==
    /\ Chaining /\ HasRoom
    /\ Returns(group_by(qb, column))

Select(cols) ==
    /\ Chaining /\ HasRoom
    /\ Returns(select(qb, cols))

Set(column) ==
    /\ Chaining /\ HasRoom
    /\ Returns(set(qb, column, EmailOrder[1]))

SetMultiple(cols) ==
    /\ Chaining /\ Entries + Len(cols) <= MaxEntries
    /\ Returns(set_multiple(qb, [i \in 1..Len(cols) |-> [column |-> cols[i], value |-> EmailOrder[1]]]))

Value(column) ==
    /\ Chaining /\ HasRoom
    /\ Returns(value(qb, column, EmailOrder[1]))

Values(cols) ==
    /\ Chaining /\ Entries + Len(cols) <= MaxEntries
    /\ Returns(values(qb, [i \in 1..Len(cols) |-> [column |-> cols[i], value |-> EmailOrder[1]]]))

\* Column lists callers pass to select / set_multiple / values.
ColumnListInputs ==
    {<<>>} \cup {<<c>> : c \in ColumnInputs}
           \cup {<<p[1], p[2]>> : p \in {q \in ColumnInputs \X ColumnInputs : q[1] # q[2]}}

Init ==
    /\ qb = QueryBuilderUtil_new
    /\ gb = GroupBuilder_new
    /\ qres = Ok("Self")
    /\ db = {}
    /\ pc = "idle"
    /\ call = [op |-> "none"]
    /\ ret = Ok("none")
    /\ issued = <<>>
    /\ events = <<>>
    /\ tx = NoTransaction
    /\ now = 0
    /\ gq = QueryBuilder_new_raw("Postgres")
    /\ rl = RateLimiter_new

NextBuilder ==
    \/ New
    \/ \E c \in ColumnInputs, o \in ValueOpInputs : WhereValue(c, o)
    \/ \E c \in ColumnInputs, o \in {"In"}, n \in InLenInputs : WhereIn(c, o, n)
    \/ \E c \in ColumnInputs, o \in {"IsNull"} : WhereNull(c, o)
    \/ \E c \in ColumnInputs : WhereBetween(c)
    \/ And
    \/ Or
    \/ \E o \in {"And", "Or"} : WhereGroupCall(o)
    \/ \E c \in ColumnInputs, o \in ValueOpInputs : GroupWhereValue(c, o)
    \/ \E c \in ColumnInputs, n \in GroupInLenInputs : GroupWhereIn(c, n)
    \/ \E c \in ColumnInputs, o \in {"IsNull"} : GroupWhereNull(c, o)
    \/ GroupAnd
    \/ GroupOr
    \/ WhereGroupReturn
    \/ \E c \in ColumnInputs, d \in {"Asc", "Desc"} : OrderBy(c, d)
    \/ \E c \in ColumnInputs : GroupBy(c)
    \/ \E cs \in ColumnListInputs : Select(cs)
    \/ \E c \in ColumnInputs : Set(c)
    \/ \E cs \in ColumnListInputs : SetMultiple(cs)
    \/ \E c \in ColumnInputs : Value(c)
    \/ \E cs \in ColumnListInputs : Values(cs)

SpecBuilder == Init /\ [][NextBuilder]_vars

-----------------------------------------------------------------------------
(* Facade calls as actions.  One client calls the repository: a call is    *)
(* made when none is in flight.  create_many runs in the steps of          *)
(* execute_transaction; the others execute one statement, in one step.    *)

PageInputs == {0, 1, 3}

PageSizeInputs == {10}

IdLists == UNION {[1..n -> Ids] : n \in 0..2}

SortColumnInputs == {<<>>, <<"email">>, <<"bogus">>}

SortDirectionInputs == {<<>>, <<"Desc">>}

Idle == pc = "idle"

\* No result yet: the call is in flight.
Pending == [ok |-> FALSE, kind |-> "Pending", msg |-> ""]

Event(what, result) == [what |-> what, result |-> result]

\* A call that runs to its return in one step.
Completes(c, out) ==
    /\ Idle
    /\ call' = c
    /\ ret' = out.ret
    /\ db' = out.db
    /\ issued' = out.issued
    /\ events' = <<>>
    /\ UNCHANGED <<pc, tx, now>>
    /\ UNCHANGED <<bvars, qvars>>

Create(e, driver) ==
    Completes([op |-> "create", entry |-> e], Repository_create(db, e, now, driver))

\* before is the table the call found.
Delete(id, driver) ==
    Completes([op |-> "delete", id |-> id, before |-> db], Repository_delete(db, id, driver))

DeleteMany(ids, driver) ==
    Completes([op |-> "delete_many", ids |-> ids], Repository_delete_many(db, ids, driver))

FindByValues(column, vs, driver) ==
    Completes([op |-> "find_by_values", column |-> column, values |-> vs],
              Repository_find_by_values(db, column, vs, driver))

Paginate(page, page_size, overflow_checks, driver) ==
    Completes([op |-> "paginate", page |-> page, page_size |-> page_size],
              Repository_paginate(db, U32(page), U32(page_size), overflow_checks, driver))

PaginateSorted(page, page_size, sort_column, sort_direction, overflow_checks, driver) ==
    Completes([op |-> "paginate_sorted", page |-> page, page_size |-> page_size,
               sort_column |-> sort_column, sort_direction |-> sort_direction],
              Repository_paginate_sorted(db, U32(page), U32(page_size), sort_column,
                                         sort_direction, overflow_checks, driver))

\* create_many up to its call of execute_transaction; before is the table
\* the call found.
CreateMany(entries) ==
    /\ Idle
    /\ call' = [op |-> "create_many", entries |-> entries, before |-> db, now |-> now]
    /\ issued' = <<>>
    /\ events' = <<>>
    /\ IF entries = <<>>
       THEN /\ ret' = Ok(<<>>)
            /\ UNCHANGED <<pc, tx>>
       ELSE /\ ret' = Pending
            /\ pc' = "begin"
            /\ tx' = [NoTransaction EXCEPT !.remaining =
                        [i \in 1..Len(entries) |-> set_updated_at(entries[i], now)]]
    /\ UNCHANGED <<db, now>>
    /\ UNCHANGED <<bvars, qvars>>

\* pool.begin().await.map_err(ApiError::from)?
TxBegin(driver) ==
    /\ pc = "begin"
    /\ IF driver = "ok"
       THEN /\ events' = Append(events, Event("begin", Ok("tx")))
            /\ pc' = "work"
            /\ tx' = [tx EXCEPT !.leased = @ + 1]
            /\ UNCHANGED ret
       ELSE /\ events' = Append(events, Event("begin", ApiError_from(driver)))
            /\ ret' = ApiError_from(driver)
            /\ pc' = "idle"
            /\ tx' = NoTransaction
    /\ UNCHANGED <<db, call, issued, now>>
    /\ UNCHANGED <<bvars, qvars>>

\* f(context, tx): the unit of work starts.
InvokeWork ==
    /\ pc = "work"
    /\ events' = Append(events, Event("invoke", Ok("fut")))
    /\ pc' = "insert"
    /\ UNCHANGED <<db, call, ret, issued, tx, now>>
    /\ UNCHANGED <<bvars, qvars>>

\* Mutant of InsertSend: the next INSERT is sent without awaiting the one
\* before it.
InsertSend_not_awaited ==
    /\ pc \in {"insert", "await"}
    /\ tx.remaining # <<>>
    /\ issued' = Append(issued, insert_statement(insertable_columns, Head(tx.remaining)))
    /\ tx' = [tx EXCEPT !.in_flight = Append(@, Head(tx.remaining)), !.remaining = Tail(@)]
    /\ pc' = "await"
    /\ UNCHANGED <<db, call, ret, events, now>>
    /\ UNCHANGED <<bvars, qvars>>

\* One iteration of create_many's loop, up to its await: the INSERT of the
\* next entry starts executing on tx.
InsertSend ==
    /\ pc = "insert"
    /\ tx.remaining # <<>>
    /\ issued' = Append(issued, insert_statement(insertable_columns, Head(tx.remaining)))
    /\ tx' = [tx EXCEPT !.in_flight = Append(@, Head(tx.remaining)), !.remaining = Tail(@)]
    /\ pc' = "await"
    /\ UNCHANGED <<db, call, ret, events, now>>
    /\ UNCHANGED <<bvars, qvars>>

\* fetch_one_with_transaction(tx).await? completes: the row is pushed, or
\* the error leaves the unit of work.
InsertNext(driver) ==
    /\ pc = "await"
    /\ LET e == Head(tx.in_flight)
           err == insert_error(db \cup tx.staged, e, driver)
       IN IF err = "ok"
          THEN /\ tx' = [tx EXCEPT !.staged = @ \cup {e},
                                   !.created = Append(@, e),
                                   !.in_flight = Tail(@)]
               /\ pc' = "insert"
               /\ UNCHANGED events
          ELSE /\ tx' = [tx EXCEPT !.result = ApiError_from(err), !.in_flight = Tail(@)]
               /\ events' = Append(events, Event("return", ApiError_from(err)))
               /\ pc' = "finish"
    /\ UNCHANGED <<db, call, ret, issued, now>>
    /\ UNCHANGED <<bvars, qvars>>

\* Ok(created_entries): the unit of work returns.
WorkReturn ==
    /\ pc = "insert"
    /\ tx.remaining = <<>>
    /\ tx' = [tx EXCEPT !.result = Ok(tx.created)]
    /\ events' = Append(events, Event("return", Ok(tx.created)))
    /\ pc' = "finish"
    /\ UNCHANGED <<db, call, ret, issued, now>>
    /\ UNCHANGED <<bvars, qvars>>

\* Mutant of Finish: a transaction whose commit failed is kept, with its
\* connection, after the return.
Finish_keeps_failed_commit(driver) ==
    /\ pc = "finish"
    /\ LET f == execute_transaction_finish(tx.result, driver = "ok")
       IN /\ events' = Append(events,
                 Event(f.attempt, IF driver = "ok" THEN Ok("done") ELSE Err("sqlx", driver)))
          /\ db' = (IF f.persist THEN db \cup tx.staged ELSE db)
          /\ ret' = f.ret
    /\ pc' = "idle"
    /\ tx' = (IF tx.result.ok /\ driver # "ok"
              THEN [NoTransaction EXCEPT !.leased = tx.leased] ELSE NoTransaction)
    /\ UNCHANGED <<call, issued, now>>
    /\ UNCHANGED <<bvars, qvars>>

\* The match on the result: commit or rollback, and the return.  commit and
\* rollback take the transaction by value: with it goes the connection that
\* pool.begin() checked out.
Finish(driver) ==
    /\ pc = "finish"
    /\ LET f == execute_transaction_finish(tx.result, driver = "ok")
       IN /\ events' = Append(events,
                 Event(f.attempt, IF driver = "ok" THEN Ok("done") ELSE Err("sqlx", driver)))
          /\ db' = (IF f.persist THEN db \cup tx.staged ELSE db)
          /\ ret' = f.ret
    /\ pc' = "idle"
    /\ tx' = NoTransaction
    /\ UNCHANGED <<call, issued, now>>
    /\ UNCHANGED <<bvars, qvars>>

\* before is the table the call found.
Update(id, e, driver) ==
    Completes([op |-> "update", id |-> id, entry |-> e, driver |-> driver, before |-> db,
               now |-> now],
              Repository_update(db, id, e, now, driver))

NextRepo ==
    \/ \E i \in Ids, e \in Entities, d \in DriverOutcomes : Update(i, e, d)
    \/ \E e \in Entities, d \in DriverOutcomes : Create(e, d)
    \/ \E i \in Ids, d \in DriverOutcomes : Delete(i, d)
    \/ \E ids \in IdLists, d \in DriverOutcomes : DeleteMany(ids, d)
    \/ \E c \in {"id", "bogus"}, vs \in IdLists, d \in DriverOutcomes : FindByValues(c, vs, d)
    \/ \E p \in PageInputs, s \in PageSizeInputs, oc \in BOOLEAN, d \in DriverOutcomes :
            Paginate(p, s, oc, d)
    \/ \E p \in PageInputs, s \in PageSizeInputs, sc \in SortColumnInputs,
          sd \in SortDirectionInputs, oc \in BOOLEAN, d \in DriverOutcomes :
            PaginateSorted(p, s, sc, sd, oc, d)
    \/ \E es \in EntrySeqs : CreateMany(es)
    \/ \E d \in DriverOutcomes : TxBegin(d)
    \/ InvokeWork
    \/ InsertSend
    \/ \E d \in DriverOutcomes : InsertNext(d)
    \/ WorkReturn
    \/ \E d \in DriverOutcomes : Finish(d)

SpecRepo == Init /\ [][NextRepo]_vars

-----------------------------------------------------------------------------
(* The single-statement operations on rows that carry the time they were   *)
(* written.                                                                *)

\* The clock does not run past MaxTime.
MaxTime == 1

\* Time passes between two calls.
Tick ==
    /\ Idle
    /\ now < MaxTime
    /\ now' = now + 1
    /\ UNCHANGED <<db, pc, call, ret, issued, events, tx>>
    /\ UNCHANGED <<bvars, qvars>>

\* after is the call this one follows and what that call returned (without
\* the call that one followed).
FindById(id, driver) ==
    Completes([op |-> "find_by_id", id |-> id, driver |-> driver,
               after |-> [call |-> [f \in DOMAIN call \ {"after"} |-> call[f]], ret |-> ret]],
              Repository_find_by_id(db, id, driver))

FindByColumn(column, v, driver) ==
    Completes([op |-> "find_by_column", columns |-> <<column>>, values |-> <<v>>,
               driver |-> driver],
              Repository_find_by_column(db, column, v, driver))

FindByColumns(cols, vals, driver) ==
    Completes([op |-> "find_by_columns", columns |-> cols, values |-> vals, driver |-> driver],
              Repository_find_by_columns(db, cols, vals, driver))

UpdatePartial(id, cols, vals, driver) ==
    Completes([op |-> "update_partial", id |-> id, columns |-> cols, values |-> vals,
               driver |-> driver, before |-> db, now |-> now],
              Repository_update_partial(db, id, cols, vals, driver))

\* Column lists with a value list each: of the same length, of different
\* lengths, empty on one side, and naming a column the entity does not have.
ColumnValueInputs ==
    { <<<<>>, <<>>>>, <<<<"email">>, <<"b">>>>, <<<<"email">>, <<>>>>, <<<<>>, <<"b">>>>,
      <<<<"id", "email">>, <<1, "b">>>>, <<<<"id", "email">>, <<1>>>>,
      <<<<"bogus">>, <<1>>>> }

Exists(id, driver) ==
    Completes([op |-> "exists", id |-> id, driver |-> driver, before |-> db],
              Repository_exists(db, id, driver))

NextFacade ==
    \/ Tick
    \/ \E i \in Ids, d \in DriverOutcomes : Exists(i, d)
    \/ \E cv \in ColumnValueInputs, d \in DriverOutcomes :
            Len(cv[1]) = 1 /\ Len(cv[2]) = 1 /\ FindByColumn(cv[1][1], cv[2][1], d)
    \/ \E cv \in ColumnValueInputs, d \in DriverOutcomes : FindByColumns(cv[1], cv[2], d)
    \/ \E i \in Ids, e \in Entities, d \in DriverOutcomes : Update(i, e, d)
    \/ \E i \in Ids, cv \in ColumnValueInputs, d \in DriverOutcomes :
            UpdatePartial(i, cv[1], cv[2], d)
    \/ \E c \in {"id", "bogus"}, vs \in {<<>>, <<1>>}, d \in DriverOutcomes :
            FindByValues(c, vs, d)
    \/ \E e \in Entities, d \in DriverOutcomes : Create(e, d)
    \/ \E i \in Ids, d \in DriverOutcomes : Delete(i, d)
    \/ \E i \in Ids, d \in DriverOutcomes : FindById(i, d)

SpecFacade == Init /\ [][NextFacade]_vars

-----------------------------------------------------------------------------
(* generic_query_builder.rs, parameterizedQuery.rs, query_executor.rs: a   *)
(* raw-SQL builder, and the query prepared from its text.                  *)

\* The builder allocates no more than MaxParams placeholders.
MaxParams == 3

\* A prepared query binds no more than MaxBinds values.
MaxBinds == 2

\* A prepared query borrows the builder's text (prepare(&self) returns
\* ParameterizedQuery<'_, DB>): while it lives the builder is neither moved
\* (sql, append) nor mutably borrowed (placeholder).
QbNew(db_type) ==
    /\ gq.prepared = <<>>
    /\ gq' = QueryBuilder_new_raw(db_type)
    /\ UNCHANGED <<bvars, rvars, rl>>

\* QueryBuilder::sql: the text is replaced.
QbSql(text) ==
    /\ gq.prepared = <<>>
    /\ gq' = [gq EXCEPT !.sql = text, !.returned = "Self", !.ran = <<>>]
    /\ UNCHANGED <<bvars, rvars, rl>>

\* QueryBuilder::append: the text is added after what is there.
QbAppend(text) ==
    /\ gq.prepared = <<>>
    /\ Len(gq.sql) < MaxParams
    /\ gq' = [gq EXCEPT !.sql = @ \o text, !.returned = "Self", !.ran = <<>>]
    /\ UNCHANGED <<bvars, rvars, rl>>

\* QueryBuilder::placeholder: param_count += 1, then the dialect's text.
QbPlaceholder ==
    /\ gq.prepared = <<>>
    /\ gq.calls < MaxParams
    /\ gq' = [gq EXCEPT !.param_count = @ + 1,
                        !.calls = @ + 1,
                        !.ran = <<>>,
                        !.returned = DbType_placeholder(gq.db_type, gq.param_count + 1)]
    /\ UNCHANGED <<bvars, rvars, rl>>

QbGetSql ==
    /\ gq' = [gq EXCEPT !.returned = "sql"]
    /\ UNCHANGED <<bvars, rvars, rl>>

\* QueryBuilder::prepare makes a ParameterizedQuery of the text; a
\* QueryExecutor is made of it by QueryExecutor::new.
Prepare(kind) ==
    /\ gq' = [gq EXCEPT !.prepared = <<[kind |-> kind, sql |-> gq.sql, binds |-> <<>>]>>,
                        !.ran = <<>>]
    /\ UNCHANGED <<bvars, rvars, rl>>

\* ParameterizedQuery::bind, QueryExecutor::bind
Bind(v) ==
    /\ gq.prepared # <<>>
    /\ Len(gq.prepared[1].binds) < MaxBinds
    /\ gq' = [gq EXCEPT !.prepared[1].binds = Append(@, v)]
    /\ UNCHANGED <<bvars, rvars, rl>>

\* A terminal operation consumes the prepared query.  execute and every
\* operation of QueryExecutor run self.query, which carries the bound
\* values; fetch_all, fetch_one and fetch_optional of ParameterizedQuery run
\* sqlx::query_as(self.sql), a new query of the text alone.
Run(op) ==
    /\ gq.prepared # <<>>
    /\ LET p == gq.prepared[1]
           on_query == p.kind = "QueryExecutor" \/ op = "execute"
       IN gq' = [gq EXCEPT !.prepared = <<>>,
                           !.ran = <<[op |-> op, kind |-> p.kind, binds |-> p.binds,
                                      statement |-> Statement(p.sql, IF on_query THEN p.binds
                                                                     ELSE <<>>)]>>]
    /\ UNCHANGED <<bvars, rvars, rl>>

NextQuery ==
    \/ \E d \in DbTypes : QbNew(d)
    \/ \E t \in {<<"SELECT 1">>, <<"DELETE FROM users WHERE id =">>} : QbSql(t)
    \/ \E t \in {<<"AND x =">>} : QbAppend(t)
    \/ QbPlaceholder
    \/ QbGetSql
    \/ \E k \in {"ParameterizedQuery", "QueryExecutor"} : Prepare(k)
    \/ \E v \in Ids : Bind(v)
    \/ \E o \in {"execute", "fetch_all", "fetch_one", "fetch_optional"} : Run(o)

SpecQuery == Init /\ [][NextQuery]_vars

\* The rate limiter under any interleaving of its requests with the clock.
SpecLimiter == Init /\ [][NextLimiter]_vars

-----------------------------------------------------------------------------
(* query_builder.rs: a built UPDATE or INSERT executed on the pool.        *)

\* data is the map the builder held when the call was made.
BuilderUpdate(returning, matching, driver) ==
    /\ Chaining
    /\ Completes([op |-> "builder_update", returning |-> returning,
                  data |-> qb.update_data, before |-> db],
                 QueryBuilderUtil_update(qb, db, returning, matching, driver))

BuilderInsert(returning, defaults, driver) ==
    /\ Chaining
    /\ Completes([op |-> "builder_insert", returning |-> returning,
                  data |-> qb.insert_data, before |-> db],
                 QueryBuilderUtil_insert(qb, db, returning, set_updated_at(defaults, now), driver))

NextWrite ==
    \/ New
    \/ \E c \in ColumnInputs : Set(c)
    \/ \E c \in ColumnInputs : Value(c)
    \/ \E c \in ColumnInputs, o \in ValueOpInputs : WhereValue(c, o)
    \/ \E e \in Entities, d \in DriverOutcomes : Create(e, d)
    \/ \E r \in BOOLEAN, m \in SUBSET db, d \in DriverOutcomes : BuilderUpdate(r, m, d)
    \/ \E r \in BOOLEAN, e \in Entities, d \in DriverOutcomes : BuilderInsert(r, e, d)

SpecWrite == Init /\ [][NextWrite]_vars

-----------------------------------------------------------------------------
(* Properties of the facade and of execute_transaction                    *)

EventsOf(whats) == SelectSeq(events, LAMBDA ev : ev.what \in whats)

\* A non-empty create_many has returned from a unit of work that ran.
CreateManyReturned ==
    /\ Idle
    /\ call.op = "create_many"
    /\ EventsOf({"return"}) # <<>>

WorkResult == EventsOf({"return"})[1].result

Committed == EventsOf({"commit"}) # <<>> /\ EventsOf({"commit"})[1].result.ok

BatchRolledBack == ret = WorkResult /\ db = call.before

\* The batch as create_many writes it: stamped with the time of the call.
Stamped == [i \in 1..Len(call.entries) |-> set_updated_at(call.entries[i], call.now)]

BatchPersisted == ret = Ok(Stamped) /\ db = call.before \cup Range(Stamped)

\* C4 as amended: create_many is all-or-nothing.  When the insert of an
\* entry fails, create_many returns that insert's error and the table is
\* what it was before the call; when every insert succeeds and the commit
\* succeeds, the whole batch is in the table and is returned in input
\* order; when the commit fails, an error is returned and the table is what
\* it was before the call.
C4_CreateManyAllOrNothing ==
    CreateManyReturned =>
        /\ ~WorkResult.ok => BatchRolledBack
        /\ WorkResult.ok /\ Committed => BatchPersisted
        /\ WorkResult.ok /\ ~Committed => ~ret.ok /\ db = call.before

\* C4 as stated: when the insert of an entry fails, create_many returns
\* that insert's error and none of the batch is persisted; when every
\* insert succeeds, the whole batch is persisted and returned in input order.
C4_AsStated ==
    CreateManyReturned =>
        /\ ~WorkResult.ok => BatchRolledBack
        /\ WorkResult.ok => BatchPersisted

\* A batch of three whose second insert broke the uniqueness of the key,
\* after the first was made: the error is returned and the table is as before.
C4_Witness ==
    /\ CreateManyReturned
    /\ Len(call.entries) = 3
    /\ Len(issued) = 2
    /\ ret = ApiError_from("DatabaseConstraint")
    /\ Stamped[1] \notin db
    /\ db = call.before

\* C5: in an execution of execute_transaction whose begin succeeded, the
\* unit of work is invoked once, and then one of commit and rollback is
\* attempted, once: commit when the unit of work returned Ok, rollback when
\* it returned Err.
C5_WorkOnceThenCommitOrRollback ==
    LET begun == events # <<>> /\ events[1].result.ok
        invoked == EventsOf({"invoke"})
        returned == EventsOf({"return"})
        ended == EventsOf({"commit", "rollback"})
    IN /\ Len(invoked) <= 1
       /\ Len(ended) <= 1
       /\ ended # <<>> =>
            /\ Len(invoked) = 1
            /\ Len(returned) = 1
            /\ events[Len(events)] = ended[1]
            /\ ended[1].what = "commit" <=> returned[1].result.ok
            /\ ended[1].what = "rollback" <=> ~returned[1].result.ok
       /\ Idle /\ begun => Len(invoked) = 1 /\ Len(ended) = 1

\* A rollback was attempted after a unit of work that failed.
C5_Witness ==
    /\ Idle
    /\ Len(events) = 4
    /\ events[2].what = "invoke"
    /\ ~events[3].result.ok
    /\ events[4].what = "rollback"

\* C6: when the unit of work fails with an error, execute_transaction
\* returns that error, kind and message, whether the rollback succeeds or
\* fails.
C6_WorkErrorReturned ==
    (Idle /\ EventsOf({"rollback"}) # <<>>) =>
        /\ ~WorkResult.ok
        /\ ret = WorkResult

\* The rollback failed and the error returned is the unit of work's:
\* a broken key, not the driver's failure.
C6_Witness ==
    /\ Idle
    /\ EventsOf({"rollback"}) # <<>>
    /\ ~EventsOf({"rollback"})[1].result.ok
    /\ ret = ApiError_from("DatabaseConstraint")

\* C7: delete(id) returns true when a row with that id existed and was
\* removed and false when there was none (so a second delete of the same id
\* returns false), and it returns no error.
C7_DeleteReportsWhetherRowExisted ==
    [][\A i \in Ids :
        Delete(i, "ok") => ret' = Ok(\E r \in db : r.id = i) /\ (\A r \in db' : r.id # i)]_vars

\* What delete does return: true, whether or not the row existed.
C7_DeleteReturnsTrue ==
    [][\A i \in Ids : Delete(i, "ok") => ret' = Ok(TRUE)]_vars

\* C8: delete_many of an empty id list returns 0 and find_by_values of an
\* empty value list returns an empty list; neither executes a statement
\* and the rows stay as they were.
C8_EmptyListShortCircuit ==
    [][/\ \A d \in DriverOutcomes :
            DeleteMany(<<>>, d) => ret' = Ok(0) /\ issued' = <<>> /\ db' = db
       /\ \A d \in DriverOutcomes, c \in {"id", "bogus"} :
            FindByValues(c, <<>>, d) => ret' = Ok(<<>>) /\ issued' = <<>> /\ db' = db]_vars

\* delete_many of an empty list has returned 0 on a table that holds rows.
C8_Witness ==
    /\ Idle
    /\ call.op = "delete_many"
    /\ call.ids = <<>>
    /\ ret = Ok(0)
    /\ issued = <<>>
    /\ db # {}

\* The token that follows a keyword of a statement.
TokenAfter(sql, keyword) ==
    sql[(CHOOSE i \in 1..Len(sql) : sql[i] = keyword) + 1]

ClampedOffset(page, page_size) == ((IF page > 1 THEN page ELSE 1) - 1) * page_size

HasLimitOffset(stmts, page, page_size) ==
    /\ stmts # <<>>
    /\ TokenAfter(stmts[1].sql, "LIMIT") = ToString(page_size)
    /\ TokenAfter(stmts[1].sql, "OFFSET") = ToString(ClampedOffset(page, page_size))

\* C9: paginate(page, page_size) and paginate_sorted(page, page_size, ..)
\* issue a query with LIMIT page_size and OFFSET (max(page, 1) - 1) *
\* page_size; page 0 gives the query of page 1.
C9_LimitAndClampedOffset ==
    [][\A p \in PageInputs, s \in PageSizeInputs, oc \in BOOLEAN, d \in DriverOutcomes :
        /\ Paginate(p, s, oc, d) => HasLimitOffset(issued', p, s)
        /\ \A sc \in {<<>>, <<"email">>}, sd \in SortDirectionInputs :
             PaginateSorted(p, s, sc, sd, oc, d) => HasLimitOffset(issued', p, s)]_vars

\* What holds of paginate_sorted, which clamps with saturating_sub.
C9_PaginateSortedClamps ==
    [][\A p \in PageInputs, s \in PageSizeInputs, oc \in BOOLEAN, d \in DriverOutcomes :
        \A sc \in {<<>>, <<"email">>}, sd \in SortDirectionInputs :
             PaginateSorted(p, s, sc, sd, oc, d) => HasLimitOffset(issued', p, s)]_vars

-----------------
(* Properties of the builder                                               *)

\* The WHERE text and arguments of a clause list rendered on its own.
Rendered(db_type, clauses) ==
    build_where_clauses(db_type, clauses, 1, QueryBuilder_new(<<>>))

\* Index, in the rendered text of a clause list, of the first token of
\* clause i: the clauses before it and one connective after each of them.
RECURSIVE StartOf(_, _)
StartOf(clauses, i) ==
    IF i = 1 THEN 1
    ELSE StartOf(clauses, i - 1)
         + Len(Rendered("Postgres", <<clauses[i - 1]>>).sql) + 1

\* The token rendered between clause i and clause i + 1.
JoinToken(clauses, i) == Rendered("Postgres", clauses).sql[StartOf(clauses, i + 1) - 1]

\* The connective attached to clause i by the and() / or() call made right
\* after it was pushed; AND when none was made.
AttachedTo(clauses, i) ==
    IF clauses[i].op = "None" THEN "AND" ELSE LogicalOperator_to_sql(clauses[i].op)

JoinedByAttached(clauses) ==
    /\ \A i \in 1..(Len(clauses) - 1) : JoinToken(clauses, i) = AttachedTo(clauses, i)
    /\ Rendered("Postgres", set_last_op(clauses, "None")).sql
         = Rendered("Postgres", clauses).sql

\* The clause lists of a builder: its own and the one of each of its groups.
ClauseLists(clauses) ==
    {clauses} \cup {clauses[i].clause.clauses :
                        i \in {j \in 1..Len(clauses) : clauses[j].clause.kind = "Group"}}

\* C1: in the rendered WHERE text, clause i and clause i+1 are joined by the
\* connective attached to clause i (AND when none was attached), the
\* connective attached to the last clause is not rendered, and the same
\* holds inside every group; where_eq(a,1).or().where_eq(b,2) renders
\* `a = $1 OR b = $2`.
C1_ConnectiveOfClauseJoinsNext ==
    qres.ok => \A l \in ClauseLists(qb.where_clauses) : JoinedByAttached(l)

\* What the code does instead (build_where_clauses reads logical_op of the
\* clause it is about to render): clause i and clause i+1 are joined by the
\* connective attached to clause i+1, and the one attached to the first
\* clause is not rendered.
JoinedByNextAttached(clauses) ==
    \A i \in 1..(Len(clauses) - 1) : JoinToken(clauses, i) = AttachedTo(clauses, i + 1)

C1_CodeJoinsByNextClause ==
    qres.ok => \A l \in ClauseLists(qb.where_clauses) : JoinedByNextAttached(l)

C1_Witness ==
    /\ qres.ok
    /\ Len(qb.where_clauses) = 2
    /\ qb.where_clauses[1].op = "Or"
    /\ qb.where_clauses[2].op = "None"

\* Placeholders of a dialect, as tokens.
MaxPlaceholders == 12

Placeholders(db_type) == {DbType_placeholder(db_type, k) : k \in 1..MaxPlaceholders}

PlaceholdersOf(db_type, sql) ==
    LET known == Placeholders(db_type) IN SelectSeq(sql, LAMBDA t : t \in known)

BindsInClauseOrder(db_type, clauses) ==
    LET r == Rendered(db_type, clauses)
        ph == PlaceholdersOf(db_type, r.sql)
    IN /\ r.args = ClauseValues(clauses)
       /\ Len(ph) = Len(r.args)
       /\ \A k \in 1..Len(ph) : ph[k] = DbType_placeholder(db_type, k)

RECURSIVE ClauseColumns(_)
ClauseColumns(clauses) ==
    IF clauses = <<>> THEN {}
    ELSE (IF clauses[1].clause.kind = "Group"
          THEN ClauseColumns(clauses[1].clause.clauses)
          ELSE {clauses[1].clause.column})
         \cup ClauseColumns(Tail(clauses))

NamedColumns(self) ==
    ClauseColumns(self.where_clauses)
    \cup {self.order_by[i].column : i \in 1..Len(self.order_by)}
    \cup Range(self.group_by)
    \cup (IF self.select_columns = <<>> THEN {} ELSE Range(self.select_columns[1]))
    \cup {self.update_data[i].column : i \in 1..Len(self.update_data)}
    \cup {self.insert_data[i].column : i \in 1..Len(self.insert_data)}

InvalidColumn(c) == Err("InvalidColumn", c)

\* Every column-taking method of QueryBuilderUtil and GroupBuilder, called
\* on the builder as it stands with the column name c.
RejectedByEveryMethod(c) ==
    /\ where_value(qb, c, "Equal", 0) = InvalidColumn(c)
    /\ where_value(qb, c, "ILike", 0) = InvalidColumn(c)
    /\ where_in(qb, c, "In", <<0>>) = InvalidColumn(c)
    /\ where_in(qb, c, "NotIn", <<0>>) = InvalidColumn(c)
    /\ where_null(qb, c, "IsNull") = InvalidColumn(c)
    /\ where_null(qb, c, "IsNotNull") = InvalidColumn(c)
    /\ where_between(qb, c, 0, 1) = InvalidColumn(c)
    /\ order_by(qb, c, "Asc") = InvalidColumn(c)
    /\ group_by(qb, c) = InvalidColumn(c)
    /\ select(qb, <<"id", c>>) = InvalidColumn(c)
    /\ set(qb, c, 0) = InvalidColumn(c)
    /\ set_multiple(qb, <<[column |-> "id", value |-> 0], [column |-> c, value |-> 0]>>)
         = InvalidColumn(c)
    /\ value(qb, c, 0) = InvalidColumn(c)
    /\ values(qb, <<[column |-> "id", value |-> 0], [column |-> c, value |-> 0]>>)
         = InvalidColumn(c)
    /\ GroupBuilder_where_value(gb.clauses, c, "Equal", 0) = InvalidColumn(c)
    /\ GroupBuilder_where_in(gb.clauses, c, <<0>>) = InvalidColumn(c)
    /\ GroupBuilder_where_null(gb.clauses, c, "IsNull") = InvalidColumn(c)

\* C3: every builder method that takes a column name fails with
\* InvalidColumn when the name is not in Entry::columns(), before anything
\* is added; no where / order / group / select / update / insert entry of a
\* builder (or of a group being built) names an undeclared column, and a
\* failed call leaves the caller with the InvalidColumn error only.
C3_OnlyDeclaredColumns ==
    /\ \A c \in ColumnInputs \ Range(columns) : RejectedByEveryMethod(c)
    /\ NamedColumns(qb) \cup ClauseColumns(gb.clauses) \subseteq Range(columns)
    /\ ~qres.ok =>
        /\ qres.kind = "InvalidColumn"
        /\ qres.msg \notin Range(columns)
        /\ qb = QueryBuilderUtil_new
        /\ ~gb.active

\* A call with an undeclared column has failed.
C3_Witness ==
    /\ ~qres.ok
    /\ qres = InvalidColumn("bogus")

\* The text a group is claimed to render to: its clauses, clause j and
\* clause j+1 joined by the connective attached to clause j.
RECURSIVE ClaimedGroupText(_, _)
ClaimedGroupText(clauses, j) ==
    IF j > Len(clauses) THEN <<>>
    ELSE Rendered("MySQL", <<clauses[j]>>).sql
         \o (IF j < Len(clauses) THEN <<AttachedTo(clauses, j)>> ELSE <<>>)
         \o ClaimedGroupText(clauses, j + 1)

\* Clause i of the list is a group rendered as one parenthesized unit.
GroupIsUnit(clauses, i) ==
    LET sql == Rendered("MySQL", clauses).sql
        first == StartOf(clauses, i)
        last == first + Len(Rendered("MySQL", <<clauses[i]>>).sql) - 1
    IN /\ sql[first] = "("
       /\ sql[last] = ")"
       /\ SubSeq(sql, first + 1, last - 1) = ClaimedGroupText(clauses[i].clause.clauses, 1)
       /\ i > 1 => sql[first - 1] \in {"AND", "OR"}
       /\ i < Len(clauses) => sql[last + 1] \in {"AND", "OR"}

\* where_group_or(g => g.where_eq(status).and().where_eq(author_id))
\* followed by where_eq(archived), on columns of the entity.
GroupExample ==
    where_value(
        where_group(QueryBuilderUtil_new,
            GroupBuilder_where_value(
                GroupBuilder_and(GroupBuilder_where_value(<<>>, "id", "Equal", 1).val),
                "username", "Equal", 2).val,
            "Or"),
        "email", "Equal", 3).val

\* C10: a group added with where_group_and / where_group_or is rendered as
\* one parenthesized unit holding its clauses joined by their own
\* connectives, and is joined to its siblings outside the parentheses; the
\* example renders `(status = $1 AND author_id = $2) AND archived = $3`.
C10_GroupRenderedAsUnit ==
    /\ Rendered("Postgres", GroupExample.where_clauses).sql
         = <<"(", "id", "=", "$1", "AND", "username", "=", "$2", ")",
             "AND", "email", "=", "$3">>
    /\ qres.ok =>
        \A i \in 1..Len(qb.where_clauses) :
            qb.where_clauses[i].clause.kind = "Group" => GroupIsUnit(qb.where_clauses, i)

-----------------------------------------------------------------------------
(* Properties of the single-statement operations                           *)

None == [none |-> TRUE]

\* find_by_id(id) follows a delete(id) that found the row and returned true.
FindFollowsDelete ==
    /\ Idle
    /\ call.op = "find_by_id"
    /\ call.after.call.op = "delete"
    /\ call.after.call.id = call.id
    /\ \E r \in call.after.call.before : r.id = call.id
    /\ call.after.ret = Ok(TRUE)
    /\ call.driver = "ok"

\* C12: after create(e) and a delete(id) of the created row that returned
\* true, find_by_id(id) returns Ok with an absent result.
C12_FindAfterDeleteIsOkNone == FindFollowsDelete => ret.ok /\ ret.val = None

\* What find_by_id returns there: the NotFound error.
C12_FindAfterDeleteIsNotFound == FindFollowsDelete => ~ret.ok /\ ret.kind = "NotFound"

\* C13: if create(e) returns row r, the find_by_id(r.id) issued next returns
\* a row equal to r in every column; it holds e's fields and the time of the
\* create.
C13_CreateThenFindRoundTrip ==
    (/\ Idle
     /\ call.op = "find_by_id"
     /\ call.after.call.op = "create"
     /\ call.after.ret.ok
     /\ call.after.ret.val.id = call.id
     /\ call.driver = "ok")
    => /\ ret = Ok(call.after.ret.val)
       /\ ret.val.id = call.after.call.entry.id
       /\ ret.val.email = call.after.call.entry.email

\* A row created at an earlier time has been found again, unchanged, at a
\* later one.
C13_Witness ==
    /\ Idle
    /\ call.op = "find_by_id"
    /\ call.after.call.op = "create"
    /\ call.after.ret.ok
    /\ ret = Ok(call.after.ret.val)
    /\ ret.val.updated_at < now

\* C14: find_by_columns fails with InternalServer, without executing a
\* statement, whenever the number of columns differs from the number of
\* values, also when exactly one of the two lists is empty.
C14_ArityMismatchIsInternalServer ==
    (Idle /\ call.op = "find_by_columns" /\ Len(call.columns) # Len(call.values))
    => ~ret.ok /\ ret.kind = "InternalServer" /\ issued = <<>>

\* What find_by_columns does: the mismatch is an InternalServer error when
\* both lists hold something, and the call is find_all when one is empty.
C14_EmptyListIsFindAll ==
    (Idle /\ call.op = "find_by_columns" /\ Len(call.columns) # Len(call.values))
    => IF call.columns # <<>> /\ call.values # <<>>
       THEN ~ret.ok /\ ret.kind = "InternalServer" /\ issued = <<>>
       ELSE issued = <<Statement(select_from, <<>>)>>

\* C15: update_partial with an empty column list fails with BadRequest,
\* executes no statement and leaves every row as it was.
C15_EmptyColumnsIsBadRequest ==
    (Idle /\ call.op = "update_partial" /\ call.columns = <<>>)
    => ~ret.ok /\ ret.kind = "BadRequest" /\ issued = <<>> /\ db = call.before

\* update_partial of a stored row with no column has been refused.
C15_Witness ==
    /\ Idle
    /\ call.op = "update_partial"
    /\ call.columns = <<>>
    /\ call.values = <<>>
    /\ call.driver = "ok"
    /\ \E r \in db : r.id = call.id
    /\ ~ret.ok
    /\ ret.kind = "BadRequest"

\* The columns a statement assigns: those of its SET list.
AssignedColumns(sql) ==
    LET where == CHOOSE i \in 1..Len(sql) : sql[i] = "WHERE"
    IN {sql[i] : i \in {j \in 1..(where - 2) : sql[j + 1] = "="}}

\* update_partial has returned a row.
UpdatePartialSucceeded == Idle /\ call.op = "update_partial" /\ ret.ok

\* C16: a successful update_partial assigns the supplied columns and
\* updated_at: the row's updated_at is then the time of the call, and no
\* other column of the row has changed.
C16_UpdatePartialBumpsUpdatedAt ==
    UpdatePartialSucceeded =>
        /\ AssignedColumns(issued[1].sql) = Range(call.columns) \cup {"updated_at"}
        /\ ret.val \in db
        /\ ret.val.updated_at = call.now
        /\ \E old \in call.before :
              /\ old.id = call.id
              /\ \A f \in DOMAIN old \ (Range(call.columns) \cup {"updated_at"}) :
                    ret.val[f] = old[f]

\* What update_partial writes: the supplied columns and nothing else, so
\* updated_at stays as it was unless the caller lists it.
C16_UpdatePartialWritesSuppliedOnly ==
    UpdatePartialSucceeded =>
        /\ AssignedColumns(issued[1].sql) = Range(call.columns)
        /\ ret.val \in db
        /\ \E old \in call.before :
              /\ old.id = call.id
              /\ \A f \in DOMAIN old \ Range(call.columns) : ret.val[f] = old[f]

\* C17: update of an id with no row fails with NotFound, adds no row and
\* changes none; update of an id with a row changes that row only.
C17_UpdateIsNotUpsert ==
    (Idle /\ call.op = "update" /\ call.driver = "ok")
    => IF \A r \in call.before : r.id # call.id
       THEN ~ret.ok /\ ret.kind = "NotFound" /\ db = call.before
       ELSE /\ \A r \in call.before : r.id # call.id => r \in db
            /\ Cardinality(db) = Cardinality(call.before)

\* update of an absent id has failed with NotFound on a table that holds
\* another row.
C17_Witness ==
    /\ Idle
    /\ call.op = "update"
    /\ call.driver = "ok"
    /\ db # {}
    /\ \A r \in call.before : r.id # call.id
    /\ ~ret.ok
    /\ ret.kind = "NotFound"

\* The column names the caller passed to the call.
CallColumns ==
    IF "columns" \in DOMAIN call THEN Range(call.columns)
    ELSE IF "column" \in DOMAIN call THEN {call.column}
    ELSE {}

\* C20: a facade operation that takes column names executes no statement
\* that names a column outside Entry::columns(); given such a name it fails
\* with InvalidColumn and executes nothing.
C20_FacadeValidatesColumns ==
    Idle =>
        /\ \A k \in 1..Len(issued) : Range(issued[k].sql) \cap CallColumns \subseteq Range(columns)
        /\ CallColumns \ Range(columns) # {}
            => ~ret.ok /\ ret.kind = "InvalidColumn" /\ issued = <<>>

\* What holds: find_by_values, which builds its statement with the query
\* builder, refuses an undeclared column once it builds one.
C20_BuilderOperationsValidate ==
    (/\ Idle
     /\ call.op = "find_by_values"
     /\ call.column \notin Range(columns)
     /\ call.values # <<>>)
    => ret = InvalidColumn(call.column) /\ issued = <<>>

\* A call has failed after it executed a statement: with a driver error.
FailedOnStatement == Idle /\ ~ret.ok /\ issued # <<>>

\* C18: a driver error of any execution method reaches the caller as
\* NotFound, Conflict or InternalServer, never as the driver's error wrapped
\* in a Database error.
C18_DriverErrorsInTaxonomy ==
    FailedOnStatement => ret.kind \in {"NotFound", "Conflict", "InternalServer"}

\* What holds: the operations run by QueryBuilderUtil return the driver's
\* error wrapped in a Database error, the others translate it.
C18_BuilderWrapsDriverError ==
    FailedOnStatement =>
        IF call.op \in {"find_by_values", "paginate_sorted"}
        THEN ret.kind = "Database" /\ ret.msg \in SqlxErrors
        ELSE ret.kind \in {"NotFound", "Conflict", "InternalServer"}

\* C19: while the transaction of execute_transaction is open at most one
\* statement is executing on it, and only while the unit of work awaits it:
\* create_many sends an INSERT once the one before it has completed, and
\* commit / rollback come after the unit of work has returned, with nothing
\* executing.
C19_OneStatementInFlight ==
    /\ Len(tx.in_flight) <= 1
    /\ tx.in_flight # <<>> => pc = "await"
    /\ pc \in {"insert", "await"} => Len(issued) = Len(tx.created) + Len(tx.in_flight)
    /\ pc = "finish" => tx.in_flight = <<>> /\ EventsOf({"return"}) # <<>>
    /\ \A i \in 1..Len(events) :
          events[i].what \in {"commit", "rollback"}
          => \E j \in 1..(i - 1) : events[j].what = "return"

\* The second INSERT of a batch of three is executing: the first has
\* completed and the third has not been sent.
C19_Witness ==
    /\ pc = "await"
    /\ Len(tx.created) = 1
    /\ Len(tx.in_flight) = 1
    /\ Len(tx.remaining) = 1
    /\ Len(issued) = 2

\* exists(id) has returned an answer.
ExistsAnswered == Idle /\ call.op = "exists" /\ call.driver = "ok"

\* exists(id) answers whether a row with the id is stored, as find_by_id
\* would, and changes no row.
ExistsAgreesWithFindById ==
    /\ ret = Ok(\E r \in db : r.id = call.id)
    /\ ret.val = Repository_find_by_id(db, call.id, "ok").ret.ok
    /\ db = call.before
    /\ Len(issued) = 1
    /\ \E i \in 1..Len(issued[1].sql) - 3 :
          SubSeq(issued[1].sql, i, i + 3) = <<"WHERE", "id", "=", "$1">>
    /\ issued[1].args = <<call.id>>

\* C21: exists(id) returns true exactly when a row with that id is stored,
\* with an equality-on-id query restricted by LIMIT 1, and changes no row.
C21_ExistsByLimitOne ==
    ExistsAnswered =>
        /\ ExistsAgreesWithFindById
        /\ \E i \in 1..Len(issued[1].sql) - 1 :
              SubSeq(issued[1].sql, i, i + 1) = <<"LIMIT", "1">>

\* What exists does: the answer is right, by a COUNT(*) over every row with
\* the id; the statement has no LIMIT.
C21_ExistsByCount ==
    ExistsAnswered =>
        /\ ExistsAgreesWithFindById
        /\ "LIMIT" \notin Range(issued[1].sql)
        /\ "COUNT(*)" \in Range(issued[1].sql)

\* The tokens of sql from position a to b that are not list separators.
ListTokens(sql, a, b) == SelectSeq(SubSeq(sql, a, b), LAMBDA t : t # ",")

\* The first position of a token in sql.
IndexOf(sql, token) == CHOOSE i \in 1..Len(sql) : sql[i] = token /\ \A j \in 1..(i - 1) : sql[j] # token

\* The columns a write lists, in order, and the placeholders written for
\* them: (c1, ..) VALUES (p1, ..) of an INSERT, c1 = p1, .. of an UPDATE.
WriteParts(sql) ==
    IF sql[1] = "INSERT INTO"
    THEN [listed |-> ListTokens(sql, IndexOf(sql, "(") + 1, IndexOf(sql, ")") - 1),
          phs |-> ListTokens(sql, IndexOf(sql, "VALUES") + 2, IndexOf(sql, "RETURNING") - 2)]
    ELSE LET pairs == ListTokens(sql, IndexOf(sql, "SET") + 1, IndexOf(sql, "WHERE") - 1)
         IN [listed |-> [i \in 1..(Len(pairs) \div 3) |-> pairs[3 * i - 2]],
             phs |-> [i \in 1..(Len(pairs) \div 3) |-> pairs[3 * i]]]

\* The value v bound for column c is the one the entity e holds for c.
PairedWith(e, c, v) ==
    CASE c = "id" -> v = e.id
      [] c = "email" -> v = e.email
      [] c = "updated_at" -> v \in 0..MaxTime
      [] OTHER -> v = c

C23_PlaceholderAllocation ==
    /\ [][/\ QbPlaceholder =>
               /\ gq'.param_count = gq.param_count + 1
               /\ gq'.returned = (IF gq.db_type = "Postgres"
                                  THEN "$" \o ToString(gq.calls + 1) ELSE "?")
          /\ gq'.param_count # gq.param_count => QbPlaceholder \/ \E d \in DbTypes : QbNew(d)
          /\ gq'.calls >= gq.calls => gq'.param_count >= gq.param_count]_vars
    /\ [](gq.param_count = gq.calls)

\* The third placeholder of a MySQL builder has been allocated after its
\* text was set and a query prepared from it.
C23_Witness ==
    /\ gq.db_type = "MySQL"
    /\ gq.calls = 3
    /\ gq.returned = "?"
    /\ gq.sql # <<>>
    /\ gq.prepared # <<>>

\* C27: the statement a prepared query finally runs carries exactly the
\* values passed to bind(), in order, whichever terminal operation runs it.
C27_RunCarriesBoundValues ==
    gq.ran # <<>> => gq.ran[1].statement.args = gq.ran[1].binds

\* What the code does: execute, and every operation of QueryExecutor, run the
\* bound query; fetch_all, fetch_one and fetch_optional of ParameterizedQuery
\* run the text with no value bound.
C27_FetchDropsBoundValues ==
    gq.ran # <<>> =>
        LET r == gq.ran[1]
        IN /\ r.statement.sql = gq.sql
           /\ r.statement.args = (IF r.kind = "ParameterizedQuery" /\ r.op # "execute"
                                  THEN <<>> ELSE r.binds)

\* The conditions of a clause list in clause order, groups flattened.
RECURSIVE Conditions(_)
Conditions(clauses) ==
    IF clauses = <<>> THEN <<>>
    ELSE (IF clauses[1].clause.kind = "Group"
          THEN Conditions(clauses[1].clause.clauses)
          ELSE <<clauses[1].clause>>)
         \o Conditions(Tail(clauses))

\* The number of values the caller gave a condition.
GivenValues(c) ==
    CASE c.operator \in {"IsNull", "IsNotNull"} -> 0
      [] c.operator \in {"In", "NotIn"} -> Len(c.values[1])
      [] c.operator = "Between" -> 2
      [] OTHER -> 1

RECURSIVE SumGiven(_)
SumGiven(cs) == IF cs = <<>> THEN 0 ELSE GivenValues(Head(cs)) + SumGiven(Tail(cs))

Occurrences(sql, token) == Len(SelectSeq(sql, LAMBDA t : t = token))

\* The text and values one condition contributes, rendered on its own.
Contributes(db_type, c) ==
    LET r == build_single_condition(db_type, c, QueryBuilder_new(<<>>))
        ph == PlaceholdersOf(db_type, r.sql)
        after == SubSeq(r.sql, 3, Len(r.sql))
    IN /\ Len(ph) = GivenValues(c)
       /\ Len(r.args) = GivenValues(c)
       /\ c.operator \in {"In", "NotIn"} =>
            /\ Head(after) = "(" /\ after[Len(after)] = ")"
            /\ Occurrences(after, "(") = 1 /\ Occurrences(after, ")") = 1
            /\ r.args = c.values[1]
       /\ c.operator = "Between" =>
            /\ after = <<ph[1], "AND", ph[2]>>
            /\ r.args = <<c.values[1][1], c.values[1][2]>>
       /\ c.operator \in {"IsNull", "IsNotNull"} => after = <<>>
       /\ c.operator \notin {"In", "NotIn", "Between", "IsNull", "IsNotNull"} =>
            after = ph /\ r.args = c.value

PlaceholdersMatchValues(db_type, clauses) ==
    LET r == Rendered(db_type, clauses) IN
    /\ \A i \in 1..Len(Conditions(clauses)) : Contributes(db_type, Conditions(clauses)[i])
    /\ Len(PlaceholdersOf(db_type, r.sql)) = Len(r.args)
    /\ Len(r.args) = SumGiven(Conditions(clauses))

\* C24: in the rendered WHERE text a condition contributes as many
\* placeholders as bound values: IN / NOT IN with k elements k of them inside
\* one pair of parentheses, BETWEEN two written lower AND upper, IS NULL /
\* IS NOT NULL none, every other operator one; so for every clause tree the
\* text has as many placeholders as there are bound values.
C24_PlaceholdersPerCondition ==
    qres.ok =>
        \A d \in DbTypes :
            /\ PlaceholdersMatchValues(d, qb.where_clauses)
            /\ PlaceholdersMatchValues(d, gb.clauses)

\* The builder holds a BETWEEN, an IS NULL and an IN of two elements: four
\* placeholders for four values.
C24_Witness ==
    /\ qres.ok /\ ~gb.active
    /\ Len(qb.where_clauses) = 3
    /\ {qb.where_clauses[i].clause.kind : i \in 1..3} = {"Condition"}
    /\ qb.where_clauses[1].clause.operator = "Between"
    /\ qb.where_clauses[2].clause.operator \in {"IsNull", "IsNotNull"}
    /\ qb.where_clauses[3].clause.operator = "In"
    /\ Len(qb.where_clauses[3].clause.values[1]) = 2
    /\ Len(PlaceholdersOf("Postgres", Rendered("Postgres", qb.where_clauses).sql)) = 4

\* From one clause list to the next only the connective of the last clause
\* changed, to op; an empty list stayed empty.
OnlyLastConnective(before, after, op) ==
    /\ Len(after) = Len(before)
    /\ \A i \in 1..Len(before) : after[i].clause = before[i].clause
    /\ \A i \in 1..(Len(before) - 1) : after[i].op = before[i].op
    /\ before # <<>> => after[Len(after)].op = op

\* C25: and() and or() change only the connective of the most recently
\* pushed clause: on a builder, or a group builder, with no clause nothing
\* changes; on one with clauses the number of clauses, every condition and
\* every earlier connective stay as they were.
C25_AndOrTouchLastConnectiveOnly ==
    [][/\ And => /\ OnlyLastConnective(qb.where_clauses, qb'.where_clauses, "And")
                 /\ qb' = [qb EXCEPT !.where_clauses = qb'.where_clauses]
                 /\ gb' = gb
                 /\ qb.where_clauses = <<>> => qb' = qb
       /\ Or => /\ OnlyLastConnective(qb.where_clauses, qb'.where_clauses, "Or")
                /\ qb' = [qb EXCEPT !.where_clauses = qb'.where_clauses]
                /\ gb' = gb
                /\ qb.where_clauses = <<>> => qb' = qb
       /\ GroupAnd => /\ OnlyLastConnective(gb.clauses, gb'.clauses, "And")
                      /\ gb' = [gb EXCEPT !.clauses = gb'.clauses]
                      /\ qb' = qb
                      /\ gb.clauses = <<>> => gb' = gb
       /\ GroupOr => /\ OnlyLastConnective(gb.clauses, gb'.clauses, "Or")
                     /\ gb' = [gb EXCEPT !.clauses = gb'.clauses]
                     /\ qb' = qb
                     /\ gb.clauses = <<>> => gb' = gb]_vars

\* or() was called after the first clause, nothing after the second and
\* and() after the third: the earlier connectives are as they were left.
C25_Witness ==
    /\ qres.ok /\ ~gb.active
    /\ Len(qb.where_clauses) = 3
    /\ qb.where_clauses[1].op = "Or"
    /\ qb.where_clauses[2].op = "None"
    /\ qb.where_clauses[3].op = "And"

\* A built UPDATE or INSERT was executed with an empty map.
WroteNothing == Idle /\ call.op \in {"builder_update", "builder_insert"} /\ call.data = <<>>

\* C26: rendering or executing an UPDATE with an empty assignment map, or an
\* INSERT with an empty value map, fails with InvalidQuery before any SQL
\* text is made and before any statement reaches the pool (update,
\* update_returning, insert and insert_returning alike); the stored rows
\* are unchanged.
C26_EmptyWriteIsInvalidQuery ==
    /\ qb.update_data = <<>> =>
            LET q == build_update_query(repo_db_type, qb)
            IN ~q.ok /\ q.kind = "InvalidQuery" /\ DOMAIN q = {"ok", "kind", "msg"}
    /\ qb.insert_data = <<>> =>
            LET q == build_insert_query(repo_db_type, qb)
            IN ~q.ok /\ q.kind = "InvalidQuery" /\ DOMAIN q = {"ok", "kind", "msg"}
    /\ WroteNothing =>
            /\ ~ret.ok /\ ret.kind = "InvalidQuery"
            /\ issued = <<>>
            /\ db = call.before

\* update_returning was called on a builder with a WHERE clause and no
\* assignment while the table held rows.
C26_Witness ==
    /\ WroteNothing
    /\ call.op = "builder_update" /\ call.returning
    /\ qb.where_clauses # <<>>
    /\ db # {}
    /\ ~ret.ok /\ ret.kind = "InvalidQuery"

\* C29: when begin fails, execute_transaction returns the translated begin
\* error without invoking the unit of work and without attempting commit or
\* rollback; when the commit fails after the unit of work succeeded, it
\* returns the translated commit error and not the unit of work's result.
C29_BeginAndCommitErrorsReturned ==
    (Idle /\ call.op = "create_many" /\ events # <<>>) =>
        /\ events[1].what = "begin"
        /\ ~events[1].result.ok =>
                /\ Len(events) = 1
                /\ ret = events[1].result
                /\ issued = <<>>
        /\ LET commits == EventsOf({"commit"}) IN
           (commits # <<>> /\ ~commits[1].result.ok) =>
                /\ WorkResult.ok
                /\ ret = ApiError_from(commits[1].result.msg)
                /\ ~ret.ok
                /\ ret # WorkResult

\* Every insert of a batch succeeded and the commit failed: the caller holds
\* the commit's error.
C29_Witness ==
    /\ Idle /\ call.op = "create_many"
    /\ EventsOf({"commit"}) # <<>>
    /\ ~EventsOf({"commit"})[1].result.ok
    /\ WorkResult.ok /\ WorkResult.val # <<>>
    /\ ret = ApiError_from("Io")

\* DATABASE_MAX_CONNECTIONS, by default: the pool hands out no more
\* connections than this.
max_connections == 100

\* The ways through execute_transaction, by the events of the call.
TransactionPath ==
    IF ~events[1].result.ok THEN "begin failed"
    ELSE LET ended == EventsOf({"commit", "rollback"})[1]
         IN (IF ended.what = "commit" THEN "commit " ELSE "rollback ")
            \o (IF ended.result.ok THEN "succeeded" ELSE "failed")

RECURSIVE AdmittedWithin(_, _, _)
AdmittedWithin(client_id, from, length) ==
    IF length = 0 \/ from > MaxClock THEN 0
    ELSE rl.admitted[client_id][from] + AdmittedWithin(client_id, from + 1, length - 1)

\* What the decision of request r does to the entry of its client.
DecidesAsClaimed(r) ==
    LET req == rl.reqs[r][1]
        c == req.client_id
        before == rl.store[c]
        after == rl'.store[c]
        result == rl'.outcome[1]
        fresh == <<[count |-> 1, window_start |-> req.now]>>
        expired == before # <<>> /\ req.now - before[1].window_start >= window_duration
    IN /\ (before = <<>> \/ expired) => result = "next.call" /\ after = fresh
       /\ (before # <<>> /\ ~expired /\ before[1].count < max_requests) =>
            /\ result = "next.call"
            /\ after = <<[count |-> before[1].count + 1,
                          window_start |-> before[1].window_start]>>
       /\ (before # <<>> /\ ~expired /\ before[1].count = max_requests) =>
            /\ result = "RateLimitExceeded"
            /\ after = before

\* The counter of every stored entry is between 1 and max_requests.
CountWithinMax ==
    \A c \in Clients : rl.store[c] # <<>> => rl.store[c][1].count \in 1..max_requests

\* C30: under any interleaving of requests the limiter admits at most
\* max_requests requests of a client within one window, from the client's
\* window_start until window_duration has passed: the first request of a
\* client and the first after the window expired are admitted and set the
\* count to 1 with a fresh window_start, each further admitted request adds
\* exactly 1 to the count, and a request arriving at count = max_requests
\* inside the window is rejected with RateLimitExceeded and leaves count and
\* window_start as they were.
C30_AtMostMaxRequestsPerWindow ==
    /\ [][\A r \in Requests : Decide(r) => DecidesAsClaimed(r)]_vars
    /\ [](CountWithinMax)
    /\ [](\A c \in Clients :
            rl.store[c] # <<>> =>
                AdmittedWithin(c, rl.store[c][1].window_start, window_duration)
                    <= max_requests)

\* What the code does: every decision follows the rules above on the time
\* the request read before it asked for the lock, and the counter of an
\* entry never exceeds max_requests; the requests admitted during the
\* window of an entry are not bounded by it.
C30_CounterNeverExceedsMaxRequests ==
    /\ [][\A r \in Requests : Decide(r) => DecidesAsClaimed(r)]_vars
    /\ [](CountWithinMax)

====
